---------------------------- MODULE Spec2Model ----------------------------
(***************************************************************************)
(* Impact-analysis GitHub action (LOKESH-DQ/github_action_demo).           *)
(*                                                                         *)
(* The repository holds several versions of the same script.  Each one is  *)
(* modelled as a value of the variable `variant`:                          *)
(*   "main"  src/index.js lines 1-389 (impact-analysis API, merge, dedup)   *)
(*   "p000"  src/unnamed/part_000 (exploreDownstreams, visited map)        *)
(*   "p001"  src/unnamed/part_001 (processIndirectImpacts, per task)       *)
(*   "p003"  src/unnamed/part_003 (indirectlyImpactedModels)               *)
(*   "p008"  src/unnamed/part_008 lines 1-229 (indirectlyImpactedModels    *)
(*           with the name filter and modelEntity)                         *)
(*   "p005"  src/unnamed/part_005 lines 1-233 (findMatchingTasks,          *)
(*           analyzeImpact)                                                *)
(*   "p006"  src/unnamed/part_006 (strict matching on the asset name, one  *)
(*           lineage request per matched task)                             *)
(*                                                                         *)
(* Strings are sequences of one-character strings, so that path handling   *)
(* and key building are computed the way the code computes them.           *)
(***************************************************************************)
EXTENDS Integers, Sequences, FiniteSets, TLC

(***************************************************************************)
(* Bounds of the model.                                                    *)
(***************************************************************************)
\* number of assets over which every downstream graph is enumerated
GraphNodes == 3
\* at most this many external calls of one run fail
MaxFailures == 1
\* every enumerated graph has at most this many edges
MaxEdges == 3
\* a run is cut off after this many lineage calls (the walkers without a
\* visited set do not terminate on a cyclic graph)
MaxCalls == 14

\* index.js line 126: depth sent with the indirect impact-analysis request
ImpactDepth == 10

(***************************************************************************)
(* Strings and paths                                                       *)
(***************************************************************************)
\* the JavaScript values null and undefined (never equal to a string, nor to
\* each other under ===)
Null == <<"<null>">>
Undefined == <<"<undefined>">>
\* truthiness of a string-or-missing value
Truthy(x) == x # <<>> /\ x # Null /\ x # Undefined

EndsWith(s, suf) ==
  /\ Len(suf) <= Len(s)
  /\ SubSeq(s, Len(s) - Len(suf) + 1, Len(s)) = suf

\* index of the last occurrence of character c in s, 0 if none
LastIndexOf(s, c) ==
  LET I == {i \in 1..Len(s) : s[i] = c}
  IN  IF I = {} THEN 0 ELSE CHOOSE i \in I : \A j \in I : j <= i

\* the last path segment (paths here never end in a separator)
LastSegment(p) == SubSeq(p, LastIndexOf(p, "/") + 1, Len(p))

\* path.extname: from the last "." of the last segment, "" for none or for
\* a leading dot
ExtName(p) ==
  LET b == LastSegment(p)
      d == LastIndexOf(b, ".")
  IN  IF d <= 1 THEN <<>> ELSE SubSeq(b, d, Len(b))

\* path.basename(p, ext)
BaseName(p, ext) ==
  LET b == LastSegment(p)
  IN  IF ext # <<>> /\ EndsWith(b, ext) /\ b # ext
      THEN SubSeq(b, 1, Len(b) - Len(ext))
      ELSE b

\* file.split(path.sep)
RECURSIVE SplitSep(_)
SplitSep(p) ==
  LET I == {i \in 1..Len(p) : p[i] = "/"}
  IN  IF I = {} THEN <<p>>
      ELSE LET i == CHOOSE k \in I : \A j \in I : k <= j
           IN  <<SubSeq(p, 1, i - 1)>> \o SplitSep(SubSeq(p, i + 1, Len(p)))

\* String.prototype.toLowerCase, on ASCII letters
UpperLetters ==
  <<"A", "B", "C", "D", "E", "F", "G", "H", "I", "J", "K", "L", "M", 
     "N", "O", "P", "Q", "R", "S", "T", "U", "V", "W", "X", "Y", "Z">>
LowerLetters ==
  <<"a", "b", "c", "d", "e", "f", "g", "h", "i", "j", "k", "l", "m", 
     "n", "o", "p", "q", "r", "s", "t", "u", "v", "w", "x", "y", "z">>
LowerChar(c) ==
  IF \E i \in 1..Len(UpperLetters) : UpperLetters[i] = c
  THEN LowerLetters[CHOOSE i \in 1..Len(UpperLetters) : UpperLetters[i] = c]
  ELSE c

ToLowerCase(s) == [i \in 1..Len(s) |-> LowerChar(s[i])]

Range(s) == {s[i] : i \in 1..Len(s)}

SQL == <<".", "s", "q", "l">>
YML == <<".", "y", "m", "l">>
DBT == <<"d", "b", "t">>


(***************************************************************************)
(* extractColumnsFromSQL (sql-parser.js 7-24), on the characters of the    *)
(* content                                                                 *)
(***************************************************************************)
IsSpace(c) == c \in {" ", "\n", "\t"}

\* s has the word w at index i, whatever the case of the letters
HasWordAt(s, i, w) ==
  /\ i >= 1
  /\ i + Len(w) - 1 <= Len(s)
  /\ ToLowerCase(SubSeq(s, i, i + Len(w) - 1)) = w

\* first index from i on that holds no white space (Len(s) + 1 if none)
SkipSpace(s, i) ==
  LET I == {k \in i..Len(s) : ~IsSpace(s[k])}
  IN  IF I = {} THEN Len(s) + 1 ELSE CHOOSE k \in I : \A j \in I : k <= j

Trim(s) ==
  LET I == {k \in 1..Len(s) : ~IsSpace(s[k])}
  IN  IF I = {} THEN <<>>
      ELSE SubSeq(s, CHOOSE k \in I : \A j \in I : k <= j,
                     CHOOSE k \in I : \A j \in I : j <= k)

\* sql-parser.js 8-10: /SELECT\s+([\s\S]+?)\s+FROM/i, the first match; the
\* capture starts after the white space that follows SELECT and is the
\* shortest text followed by white space and FROM.  Null when nothing matches.
SelectList(content) ==
  LET kw == <<"s", "e", "l", "e", "c", "t">>
      from == <<"f", "r", "o", "m">>
      Ends(st) == {e \in st..Len(content) :
                     /\ e + 1 <= Len(content)
                     /\ IsSpace(content[e + 1])
                     /\ HasWordAt(content, SkipSpace(content, e + 1), from)}
      Starts == {i \in 1..Len(content) :
                   /\ HasWordAt(content, i, kw)
                   /\ i + 6 <= Len(content)
                   /\ IsSpace(content[i + 6])
                   /\ Ends(SkipSpace(content, i + 6)) # {}}
  IN  IF Starts = {} THEN Null
      ELSE LET i == CHOOSE k \in Starts : \A j \in Starts : k <= j
               st == SkipSpace(content, i + 6)
               e == CHOOSE k \in Ends(st) : \A j \in Ends(st) : k <= j
           IN  SubSeq(content, st, e)

\* the lookahead (?![^(]*\)) of line 13 fails: a ")" follows index i with no
\* "(" before it
ClosesAfter(s, i) ==
  \E p \in (i + 1)..Len(s) : s[p] = ")" /\ \A q \in (i + 1)..(p - 1) : s[q] # "("

\* sql-parser.js 13: split(/\s*,\s*(?![^(]*\))/): at every comma that is not
\* followed by such a ")", the white space around the comma goes with it
RECURSIVE SplitColumns(_)
SplitColumns(s) ==
  LET C == {i \in 1..Len(s) : s[i] = "," /\ ~ClosesAfter(s, i)}
  IN  IF C = {} THEN <<s>>
      ELSE LET i == CHOOSE k \in C : \A j \in C : k <= j
               L == {k \in 1..(i - 1) : \A j \in k..(i - 1) : IsSpace(s[j])}
               cut == IF L = {} THEN i ELSE CHOOSE k \in L : \A j \in L : k <= j
           IN  <<SubSeq(s, 1, cut - 1)>>
               \o SplitColumns(SubSeq(s, SkipSpace(s, i + 1), Len(s)))

\* sql-parser.js 16: replace(/\s+as\s+.*/i, ''), on one line
StripAlias(col) ==
  LET A == {i \in 1..Len(col) :
              /\ IsSpace(col[i])
              /\ HasWordAt(col, SkipSpace(col, i), <<"a", "s">>)
              /\ SkipSpace(col, i) + 2 <= Len(col)
              /\ IsSpace(col[SkipSpace(col, i) + 2])}
  IN  IF A = {} THEN col
      ELSE SubSeq(col, 1, (CHOOSE k \in A : \A j \in A : k <= j) - 1)

\* sql-parser.js 17: replace(/.*\./g, ''): what precedes the last "." goes
StripQualifier(col) == SubSeq(col, LastIndexOf(col, ".") + 1, Len(col))

\* sql-parser.js 19: split(/\s+/)[0] of a trimmed text
FirstWord(col) ==
  LET I == {i \in 1..Len(col) : IsSpace(col[i])}
  IN  IF I = {} THEN col
      ELSE SubSeq(col, 1, (CHOOSE k \in I : \A j \in I : k <= j) - 1)

\* sql-parser.js 20: replace(/[...]/g, '') of the back quote, the double quote
\* and the single quote
BackQuote == "<backquote>"
StripQuotes(col) == SelectSeq(col, LAMBDA c : c \notin {BackQuote, "\"", "'"})

\* sql-parser.js 21: split('(')[0]
BeforeParen(col) ==
  LET I == {i \in 1..Len(col) : col[i] = "("}
  IN  IF I = {} THEN col
      ELSE SubSeq(col, 1, (CHOOSE k \in I : \A j \in I : k <= j) - 1)

\* sql-parser.js 14-22
CleanColumn(col) ==
  BeforeParen(StripQuotes(FirstWord(Trim(StripQualifier(StripAlias(col))))))

\* sql-parser.js 14-23: every column cleaned; the empty ones and the comment
\* lines are dropped
CleanColumns(cols) ==
  SelectSeq([i \in 1..Len(cols) |-> CleanColumn(cols[i])],
            LAMBDA c : c # <<>> /\ ~(Len(c) >= 2 /\ SubSeq(c, 1, 2) = <<"-", "-">>))

\* sql-parser.js 11-23: the columns of the captured list
ColumnsOfList(list) == IF list = Null THEN <<>> ELSE CleanColumns(SplitColumns(list))

\* sql-parser.js 7-24
extractColumnsFromSQL(content) == ColumnsOfList(SelectList(content))

(***************************************************************************)
(* YAML documents as yaml.load returns them.  A structured value is a pair *)
(* of a tag and its content, which keeps it apart from null, undefined and *)
(* texts.  An object is the sequence of its <<key, value>> pairs in        *)
(* insertion order; a column of a columns list is an object, a string or   *)
(* null.                                                                   *)
(***************************************************************************)
\* yaml.load throws on this content
Malformed == <<"<malformed>">>

Obj(pairs) == <<"object", pairs>>
StrCol(name) == <<"string", name>>
List(items) == <<"list", items>>
IsString(col) == col # Null /\ col[1] = "string"
Pairs(o) == o[2]
Items(list) == list[2]

\* o[k] of an object (undefined when o has no such key)
Get(o, k) ==
  LET I == {i \in 1..Len(Pairs(o)) : Pairs(o)[i][1] = k}
  IN  IF I = {} THEN Undefined ELSE Pairs(o)[CHOOSE i \in I : TRUE][2]

\* col.name as JavaScript evaluates it (of null it throws)
NameOf(col) ==
  IF col = Null THEN Null
  ELSE IF IsString(col) THEN Undefined
  ELSE Get(col, "name")

\* JSON.stringify of an object, up to the text of the values: the pairs in
\* insertion order, those with an undefined value left out
JSONStringify(o) ==
  IF o = Undefined THEN Undefined
  ELSE <<"json", SelectSeq(Pairs(o), LAMBDA kv : kv[2] # Undefined)>>

\* a model of a schema: name, and the lists attributes and columns, Undefined
\* when it has none
Model(name, attributes, columns) ==
  <<"model", [name |-> name, attributes |-> attributes, columns |-> columns]>>

\* a schema: a top-level list of models (isArray), or a mapping with the keys
\* model, models and columns, Undefined for a key it does not have
Schema(isArray, items, model, models, columns) ==
  <<"yaml", [isArray |-> isArray, items |-> items, model |-> model, models |-> models,
             columns |-> columns]>>

\* sql-parser.js 44-46 (and 52-54, 60-62, 67-69)
AsColumn(col) ==
  IF IsString(col) THEN Obj(<<<<"name", col[2]>>>>) ELSE col

\* sql-parser.js 36-39: {name, ...def}; a name inside def replaces the key's
EntryColumn(entry) ==
  LET name == entry[1]
      def == entry[2]
  IN  IF def = Null \/ IsString(def) THEN Obj(<<<<"name", name>>>>)
      ELSE Obj(<<<<"name", IF Get(def, "name") = Undefined THEN name
                           ELSE Get(def, "name")>>>>
               \o SelectSeq(Pairs(def), LAMBDA kv : kv[1] # "name"))

\* models.find(m => m.name === modelName)?.columns?.map(...) || []
ColumnsOfNamed(models, modelName) ==
  LET I == {i \in 1..Len(models) : models[i][2].name = modelName}
  IN  IF I = {} THEN <<>>
      ELSE LET m == models[CHOOSE i \in I : \A j \in I : i <= j][2]
           IN  IF m.columns = Undefined THEN <<>>
               ELSE [k \in 1..Len(Items(m.columns)) |-> AsColumn(Items(m.columns)[k])]

\* sql-parser.js 27-77: the columns of the model named like the file.  Every
\* exception is caught inside (73-76) and gives [].  filePath is Undefined
\* when the caller passes the content alone: path.basename then throws.
extractColumnsFromYML(content, filePath) ==
  IF content = Malformed \/ ~Truthy(content) THEN <<>>
  ELSE IF filePath = Undefined THEN <<>>
  ELSE LET schema == content[2]
           modelName == BaseName(filePath, YML)
           model == schema.model[2]
           named == /\ ~schema.isArray
                    /\ schema.model # Undefined
                    /\ model.name = modelName
           map(list) == [i \in 1..Len(Items(list)) |-> AsColumn(Items(list)[i])]
       IN  IF named /\ model.attributes # Undefined
           THEN [i \in 1..Len(Items(model.attributes)) |->
                   EntryColumn(Items(model.attributes)[i])]
           ELSE IF named /\ model.columns # Undefined
           THEN map(model.columns)
           ELSE IF ~schema.isArray /\ schema.models # Undefined
           THEN ColumnsOfNamed(Items(schema.models), modelName)
           ELSE IF schema.isArray
           THEN ColumnsOfNamed(schema.items, modelName)
           ELSE IF schema.columns # Undefined
           THEN map(schema.columns)
           ELSE <<>>

\* the members of a sequence, each once, in the order of first occurrence
RECURSIVE Distinct(_)
Distinct(seq) ==
  IF seq = <<>> THEN <<>>
  ELSE LET front == Distinct(SubSeq(seq, 1, Len(seq) - 1))
           last == seq[Len(seq)]
       IN  IF last \in Range(front) THEN front ELSE Append(front, last)

\* part_010 6-29: the earlier parser returns [...new Set(columnClause)]
extractColumnsFromSQL_010(content) == Distinct(extractColumnsFromSQL(content))

\* the columns lists of the models, one after the other
RECURSIVE ColumnsOfAll(_)
ColumnsOfAll(models) ==
  IF models = <<>> THEN <<>>
  ELSE (IF Head(models)[2].columns = Undefined THEN <<>>
        ELSE Items(Head(models)[2].columns))
       \o ColumnsOfAll(Tail(models))

\* part_010 32-83: the earlier parser takes the content alone and returns
\* the names of the columns of every model; a string column counts in a
\* top-level list only, a null column throws, which is caught (79-82)
extractColumnsFromYML_010(content) ==
  IF content = Malformed \/ ~Truthy(content) THEN <<>>
  ELSE LET schema == content[2]
           cols == IF schema.isArray THEN ColumnsOfAll(schema.items)
                   ELSE IF schema.columns # Undefined THEN Items(schema.columns)
                   ELSE IF schema.models # Undefined THEN ColumnsOfAll(Items(schema.models))
                   ELSE <<>>
           name(col) == IF IsString(col) /\ schema.isArray THEN col[2] ELSE NameOf(col)
       IN  IF \E i \in 1..Len(cols) : cols[i] = Null THEN <<>>
           ELSE Distinct([i \in 1..Len(cols) |-> name(cols[i])])

(***************************************************************************)
(* Column maps: what extractColumnsFromYaml builds, a sequence of          *)
(* <<name, column>> pairs in insertion order.                              *)
(***************************************************************************)
\* columns[name] = col: a name already there keeps its place
Put(cols, name, col) ==
  IF \E i \in 1..Len(cols) : cols[i][1] = name
  THEN [i \in 1..Len(cols) |-> IF cols[i][1] = name THEN <<name, col>> ELSE cols[i]]
  ELSE Append(cols, <<name, col>>)

RECURSIVE PutAll(_, _)
PutAll(cols, list) ==
  IF list = <<>> THEN cols
  ELSE LET col == Head(list)
           named == ~IsString(col) /\ Truthy(NameOf(col))
       IN  PutAll(IF named THEN Put(cols, NameOf(col), col) ELSE cols, Tail(list))

\* index.js 464-484 (part_005 304-325 is the same, with a Map): the columns
\* of every model of doc.models by name; {} when the file cannot be parsed or
\* a column is null
extractColumnsFromYaml(content) ==
  IF content = Malformed \/ ~Truthy(content) THEN <<>>
  ELSE IF content[2].isArray \/ content[2].models = Undefined THEN <<>>
  ELSE LET list == ColumnsOfAll(Items(content[2].models))
       IN  IF \E i \in 1..Len(list) : list[i] = Null THEN <<>>
           ELSE PutAll(<<>>, list)

Keys(cols) == [i \in 1..Len(cols) |-> cols[i][1]]
Has(cols, key) == \E i \in 1..Len(cols) : cols[i][1] = key
Own(cols, key) == cols[CHOOSE i \in 1..Len(cols) : cols[i][1] = key][2]

\* a property every object inherits from Object.prototype
Constructor == <<"c", "o", "n", "s", "t", "r", "u", "c", "t", "o", "r">>
PrototypeNames == {Constructor}
Inherited == <<"<function>">>

\* cols[key] of the plain object cols
Lookup(cols, key) ==
  IF Has(cols, key) THEN Own(cols, key)
  ELSE IF key \in PrototypeNames THEN Inherited
  ELSE Undefined

\* JSON.stringify(cols[key]): undefined for a function
StringifyAt(cols, key) ==
  LET v == Lookup(cols, key)
  IN  IF v = Inherited THEN Undefined ELSE JSONStringify(v)

\* index.js 486-513
compareColumns(oldCols, newCols) ==
  LET newKeys == Keys(newCols)
      oldKeys == Keys(oldCols)
  IN  [ added |-> SelectSeq(newKeys, LAMBDA key : Lookup(oldCols, key) = Undefined),
        removed |-> SelectSeq(oldKeys, LAMBDA key : Lookup(newCols, key) = Undefined),
        modified |-> SelectSeq(newKeys, LAMBDA key :
                       /\ Lookup(oldCols, key) # Undefined
                       /\ StringifyAt(oldCols, key) # StringifyAt(newCols, key)) ]

\* x || fallback
OrElse(x, fallback) == IF Truthy(x) THEN x ELSE fallback

\* part_005 327-355: "updated" looks at description and tests only
compareColumnsDetailed(oldColsMap, newColsMap) ==
  LET newKeys == Keys(newColsMap)
      oldKeys == Keys(oldColsMap)
      differs(colName) ==
        LET oldCol == Own(oldColsMap, colName)
            newCol == Own(newColsMap, colName)
        IN  \/ OrElse(Get(oldCol, "description"), <<>>) # OrElse(Get(newCol, "description"), <<>>)
            \/ OrElse(Get(oldCol, "tests"), <<>>) # OrElse(Get(newCol, "tests"), <<>>)
  IN  [ added |-> SelectSeq(newKeys, LAMBDA colName : ~Has(oldColsMap, colName)),
        removed |-> SelectSeq(oldKeys, LAMBDA colName : ~Has(newColsMap, colName)),
        modified |-> SelectSeq(newKeys, LAMBDA colName :
                       Has(oldColsMap, colName) /\ differs(colName)) ]

\* includes() that finds no column, as it would among objects of two parses
compareByReference(baseCols, headCols) ==
  [added |-> headCols, removed |-> baseCols, modified |-> <<>>]

\* index.js 330-332 (part_001 303-304): lists of names compared with includes
compareNames(baseCols, headCols) ==
  [ added |-> SelectSeq(headCols, LAMBDA col : col \notin Range(baseCols)),
    removed |-> SelectSeq(baseCols, LAMBDA col : col \notin Range(headCols)),
    modified |-> <<>> ]

\* index.js 309-316: column objects compared by name
compareByName(baseCols, headCols) ==
  LET baseColNames == [i \in 1..Len(baseCols) |-> NameOf(baseCols[i])]
      headColNames == [i \in 1..Len(headCols) |-> NameOf(headCols[i])]
  IN  compareNames(baseColNames, headColNames)

\* index.js 311-312: col.name of a null column throws
NameThrows(cols) == \E i \in 1..Len(cols) : cols[i] = Null

(***************************************************************************)
(* The catalog assets.  Asset 1 is the task "a" and the assets 1..12 have  *)
(* pairwise different names; asset 13 is a table named "a" too, in another *)
(* connection.  Assets 1 and 2 are tasks of one job and share asset_id.    *)
(***************************************************************************)
Letters == <<"a", "b", "c", "d", "e", "f", "g", "h", "i", "j", "k", "l", "a">>
NumAssets == Len(Letters)
\* the table that shares the name of task "a"
Twin == NumAssets
Assets == 1..NumAssets

AssetRecord(i) ==
  [ name            |-> <<Letters[i]>>,
    connection_id   |-> IF i = Twin THEN <<"2">> ELSE <<"1">>,
    asset_name      |-> <<"x">>,
    asset_id        |-> IF i \in {1, 2} THEN <<"J">> ELSE <<"A", Letters[i]>>,
    entity          |-> IF i = Twin THEN <<"e", "z">> ELSE <<"e", Letters[i]>>,
    connection_name |-> IF i = Twin THEN <<"w">> ELSE <<"c">> ]

\* one entry of a lineage / impact response ("table")
Table(i, flow) ==
  [ name            |-> AssetRecord(i).name,
    connection_id   |-> AssetRecord(i).connection_id,
    asset_name      |-> AssetRecord(i).asset_name,
    asset_id        |-> AssetRecord(i).asset_id,
    entity          |-> AssetRecord(i).entity,
    connection_name |-> AssetRecord(i).connection_name,
    flow            |-> flow,
    modelEntity     |-> Undefined ]

\* one entry of the catalog's task list; the asset of a task is its job, and
\* the task's entity is sent as task_id and as entity (part_001 152-155 and
\* part_006 200-203 read both)
CatalogTask(i, type, job) ==
  [ name            |-> AssetRecord(i).name,
    connection_type |-> type,
    asset_id        |-> AssetRecord(i).asset_id,
    connection_id   |-> AssetRecord(i).connection_id,
    task_id         |-> AssetRecord(i).entity,
    entity          |-> AssetRecord(i).entity,
    job_name        |-> job,
    asset_name      |-> job,
    connection_name |-> AssetRecord(i).connection_name ]

\* the asset an identity triple denotes in the catalog (0 if none)
AssetOf(asset_id, connection_id, entity) ==
  LET S == {i \in Assets : /\ AssetRecord(i).asset_id = asset_id
                           /\ AssetRecord(i).connection_id = connection_id
                           /\ AssetRecord(i).entity = entity}
  IN  IF S = {} THEN 0 ELSE CHOOSE i \in S : TRUE

\* the identity the specification calls AssetIdentity, in its two schemes
IdentityKey(t) == <<t.asset_id, t.connection_id, t.entity>>
IdentityName(t) == <<t.name, t.connection_id, t.asset_name>>


(***************************************************************************)
(* Lineage graphs: for every asset the tables the lineage service links to *)
(* it, each with its flow.                                                 *)
(***************************************************************************)
RECURSIVE SortedSeq(_)
SortedSeq(S) ==
  IF S = {} THEN <<>>
  ELSE LET m == CHOOSE x \in S : \A y \in S : x <= y
       IN  <<m>> \o SortedSeq(S \ {m})

Down(m) == [to |-> m, flow |-> "downstream"]
Up(m) == [to |-> m, flow |-> "upstream"]
Self(m) == [to |-> m, flow |-> "self"]

NoLinks == [n \in Assets |-> <<>>]

\* the graph with the downstream edges E
EdgeGraph(E) ==
  [n \in Assets |->
     LET T == SortedSeq({m \in Assets : <<n, m>> \in E})
     IN  [k \in 1..Len(T) |-> Down(T[k])]]

PossibleEdges == {e \in (1..GraphNodes) \X (1..GraphNodes) : e[1] # e[2]}

SmallGraphs ==
  {EdgeGraph(E) : E \in {F \in SUBSET PossibleEdges : Cardinality(F) <= MaxEdges}}

\* a -> [b, c], b -> [d]
ScenarioGraph == EdgeGraph({<<1, 2>>, <<1, 3>>, <<2, 4>>})
\* a -> b -> a
CycleGraph == EdgeGraph({<<1, 2>>, <<2, 1>>})
\* a -> b -> ... -> l : the last asset is ImpactDepth + 1 edges from "a"
ChainGraph == EdgeGraph({<<i, i + 1>> : i \in 1..(ImpactDepth + 1)})
\* the table named "a" is downstream of task "a" and of "b"
TwinGraph == EdgeGraph({<<1, 2>>, <<1, Twin>>, <<2, Twin>>})
\* upstream and self links next to downstream ones
FlowGraph ==
  [NoLinks EXCEPT ![1] = <<Self(1), Down(2), Up(3)>>,
                  ![2] = <<Up(1), Self(2), Down(4)>>,
                  ![3] = <<Down(1), Down(4)>>]

\* two seeds of different connections with nothing in common below them:
\* task "a" -> b, and the other "a" -> c
TwoRootsGraph == EdgeGraph({<<1, 2>>, <<Twin, 3>>})

\* one asset below two seeds of different connections
SharedGraph == EdgeGraph({<<1, 2>>, <<Twin, 2>>})

\* both assets named "a" are downstream of "b"
NamesakeGraph == EdgeGraph({<<2, 1>>, <<2, Twin>>})

Graphs == SmallGraphs \cup {ScenarioGraph, ChainGraph, TwinGraph, FlowGraph, NamesakeGraph}

DownstreamOf(g, n) == {g[n][k].to : k \in {j \in 1..Len(g[n]) : g[n][j].flow = "downstream"}}

\* the assets at 1..d downstream edges from the assets of S
RECURSIVE Within(_, _, _)
Within(g, S, d) ==
  IF d = 0 THEN {}
  ELSE LET N == UNION {DownstreamOf(g, n) : n \in S}
       IN  N \cup Within(g, N, d - 1)

(***************************************************************************)
(* Inputs of a run: changed files, the catalog's task list, the action's   *)
(* configuration.                                                          *)
(***************************************************************************)
Path(dir, base) == dir \o <<"/">> \o base

FileA == Path(<<"j">>, <<"a">> \o SQL)
FileB == Path(<<"j">>, <<"b">> \o SQL)
FileAYml == Path(<<"j">>, <<"a">> \o YML)
FileAOtherJob == Path(<<"k">>, <<"a">> \o SQL)
FileANoDir == <<"a">> \o SQL
FileAUpper == Path(<<"j">>, <<"A">> \o SQL)
FileDotted == Path(<<"j">>, <<"a", ".", "b">> \o SQL)

FileLists ==
  { <<>>, <<FileA>>, <<FileA, FileB>>, <<FileAYml>>, <<FileAOtherJob>>,
    <<FileANoDir>>, <<FileAUpper>>, <<FileDotted, FileB>> }

\* the task "a" of job "j", whose asset has a name of its own
NamedAssetCatalog == <<[CatalogTask(1, DBT, <<"j">>) EXCEPT !.asset_name = <<"k">>]>>

Catalogs ==
  { <<>>,
    <<CatalogTask(1, DBT, <<"j">>), CatalogTask(2, DBT, <<"j">>)>>,
    <<CatalogTask(1, <<"D", "B", "T">>, <<"j">>)>>,
    <<CatalogTask(1, <<"s", "f">>, <<"j">>), CatalogTask(2, DBT, <<"k">>)>>,
    <<CatalogTask(3, DBT, Undefined), CatalogTask(Twin, DBT, <<"j">>)>>,
    NamedAssetCatalog }

BaseCatalog == <<CatalogTask(1, DBT, <<"j">>), CatalogTask(2, DBT, <<"j">>)>>
\* two tasks named "a" in job "j", one per connection
TwoConnCatalog == <<CatalogTask(1, DBT, <<"j">>), CatalogTask(Twin, DBT, <<"j">>)>>

\* api_client_id, api_client_secret, dqlabs_base_url: "" when not supplied
Present == <<"v">>
FullConfig == [clientId |-> Present, clientSecret |-> Present, baseUrl |-> Present]
Configs ==
  { FullConfig,
    [FullConfig EXCEPT !.clientId = <<>>],
    [FullConfig EXCEPT !.clientSecret = <<>>],
    [FullConfig EXCEPT !.baseUrl = <<>>] }

ConfigComplete(c) == c.clientId # <<>> /\ c.clientSecret # <<>> /\ c.baseUrl # <<>>

\* one dimension is varied at a time around the base input
Inputs ==
  [graph : Graphs, catalog : {BaseCatalog}, files : {<<FileA>>, <<FileA, FileB>>},
   config : {FullConfig}]
  \cup
  [graph : {ScenarioGraph}, catalog : Catalogs, files : FileLists, config : {FullConfig}]
  \cup
  [graph : {ScenarioGraph}, catalog : {BaseCatalog}, files : {<<FileA>>}, config : Configs]
  \cup
  [graph : {TwoRootsGraph, TwinGraph, SharedGraph}, catalog : {TwoConnCatalog}, files : {<<FileA>>},
   config : {FullConfig}]

(***************************************************************************)
(* Contents of the changed files at the base and at the head revision      *)
(* (Null: the file is not there).                                          *)
(***************************************************************************)
FileBYml == Path(<<"j">>, <<"b">> \o YML)

ColId == <<"i", "d">>
ColName == <<"n", "a", "m", "e">>
ColEmail == <<"e", "m", "a", "i", "l">>

QTwo == <<"S", "E", "L", "E", "C", "T", " ", "i", "d", ",", " ", "n", "a", "m", "e", " ", "F", "R", "O", "M", " ", "t">>
QThree == <<"S", "E", "L", "E", "C", "T", " ", "i", "d", ",", " ", "n", "a", "m", "e", ",", " ", "e", "m", "a", "i", "l", " ", "F", "R", "O", "M", " ", "t">>
QAlias == <<"s", "e", "l", "e", "c", "t", " ", "t", ".", "i", "d", " ", "A", "S", " ", "k", ",", " ", "C", "O", "U", "N", "T", "(", "n", "a", "m", "e", ")", " ", "A", "S", " ", "n", " ", "F", "R", "O", "M", " ", "t">>
QNoFrom == <<"S", "E", "L", "E", "C", "T", " ", "1">>
QTwice == <<"S", "E", "L", "E", "C", "T", " ", "i", "d", ",", " ", "i", "d", " ", "F", "R", "O", "M", " ", "t">>

\* a column descriptor of a schema file
Column(name, type) == Obj(<<<<"name", name>>, <<"type", type>>>>)
TypeInt == <<"i", "n", "t">>
TypeText == <<"s", "t", "r">>

IdColumn == Column(ColId, TypeInt)
NameColumn == Obj(<<<<"name", ColName>>, <<"description", <<"d">>>>>>)

\* models: [{name: a, columns: cols}]
ModelsDoc(cols) ==
  Schema(FALSE, <<>>, Undefined, List(<<Model(<<"a">>, Undefined, List(cols))>>), Undefined)

YTwo == ModelsDoc(<<IdColumn, NameColumn>>)
YThree == ModelsDoc(<<IdColumn, NameColumn, Column(ColEmail, TypeText)>>)
\* the type of id is another
YRetyped == ModelsDoc(<<Column(ColId, TypeText), NameColumn>>)
\* the same attributes of id, type written first
YReordered == ModelsDoc(<<Obj(<<<<"type", TypeInt>>, <<"name", ColId>>>>), NameColumn>>)
\* another description of name
YDescribed == ModelsDoc(<<IdColumn, Obj(<<<<"name", ColName>>, <<"description", <<"e">>>>>>)>>)
\* a column list with a null entry
YNullColumn == ModelsDoc(<<IdColumn, Null>>)
\* a column with the name of an inherited property
YConstructor == ModelsDoc(<<IdColumn, NameColumn, Column(Constructor, TypeInt)>>)
\* model: {name: a, attributes: {id: {type: int}, name: {description: d}}}
YAttributes ==
  Schema(FALSE, <<>>,
         Model(<<"a">>, List(<<<<ColId, Obj(<<<<"type", TypeInt>>>>)>>,
                               <<ColName, Obj(<<<<"description", <<"d">>>>>>)>>>>), Undefined),
         Undefined, Undefined)
\* model: {name: a, columns: [id, name]}
YModelColumns ==
  Schema(FALSE, <<>>, Model(<<"a">>, Undefined, List(<<StrCol(ColId), StrCol(ColName)>>)),
         Undefined, Undefined)
\* [{name: a, columns: [...]}]
YTopList == Schema(TRUE, <<Model(<<"a">>, Undefined, List(<<IdColumn, NameColumn>>))>>,
                   Undefined, Undefined, Undefined)
\* columns: [...]
YFlat == Schema(FALSE, <<>>, Undefined, Undefined, List(<<IdColumn, NameColumn>>))
\* models a and b in one file
YBoth(colsOfB) ==
  Schema(FALSE, <<>>, Undefined,
         List(<<Model(<<"a">>, Undefined, List(<<IdColumn>>)),
                Model(<<"b">>, Undefined, List(colsOfB))>>), Undefined)

Change(base, head) == [base |-> base, head |-> head]

SqlChanges ==
  { Change(QTwo, QTwo), Change(QTwo, QThree), Change(QThree, QTwo), Change(Null, QTwo),
    Change(QTwo, Null), Change(QTwo, QNoFrom), Change(QAlias, QTwo), Change(QTwice, QTwice),
    Change(QTwo, <<>>) }

YmlChanges ==
  { Change(YTwo, YTwo), Change(YTwo, YThree), Change(YThree, YTwo), Change(Null, YTwo),
    Change(YTwo, Null), Change(YTwo, Malformed), Change(Malformed, YTwo),
    Change(YTwo, YRetyped), Change(YTwo, YReordered), Change(YTwo, YDescribed),
    Change(YTwo, YNullColumn), Change(YTwo, YConstructor), Change(YConstructor, YConstructor),
    Change(YAttributes, YModelColumns), Change(YTopList, YFlat), Change(YFlat, YThree),
    Change(Null, YConstructor) }

\* what a run without a case of its own finds: every file as it was
Unchanged(files) ==
  [i \in 1..Len(files) |->
     IF EndsWith(files[i], YML) THEN Change(YTwo, YTwo) ELSE Change(QTwo, QTwo)]

\* files with their contents: one file, or a file that cannot be read next
\* to one that changed
ColumnCases ==
  {[files |-> <<FileA>>, contents |-> <<c>>] : c \in SqlChanges}
  \cup {[files |-> <<FileAYml>>, contents |-> <<c>>] : c \in YmlChanges}
  \cup {[files |-> <<FileAYml, FileBYml>>, contents |-> <<c, Change(YBoth(<<IdColumn>>), YBoth(<<IdColumn, NameColumn>>))>>] :
          c \in {Change(YTwo, Malformed), Change(YTwo, YNullColumn), Change(YTwo, Null)}}
  \cup {[files |-> <<FileA, FileB>>, contents |-> <<c, Change(QTwo, QThree)>>] :
          c \in {Change(QTwo, QNoFrom), Change(QTwo, Null)}}
  \cup {[files |-> <<FileA, FileAYml>>, contents |-> <<Change(QTwo, QThree), Change(YTwo, YThree)>>]}

\* the inputs of a run with the contents of its changed files
RunInputs ==
  {[graph |-> in.graph, catalog |-> in.catalog, files |-> in.files, config |-> in.config,
    contents |-> Unchanged(in.files)] : in \in Inputs}
  \cup
  {[graph |-> ScenarioGraph, catalog |-> BaseCatalog, files |-> c.files, config |-> FullConfig,
    contents |-> c.contents] : c \in ColumnCases}

Variants ==
  {"main", "main2", "p000", "p001", "p003", "p005", "p005b", "p006", "p007", "p008"}

\* the module that ./sql-parser resolves to
Parsers == {"sql-parser", "part_010"}

(***************************************************************************)
(* State                                                                   *)
(***************************************************************************)
VARIABLES
  variant,        \* which version of the script runs
  graph,          \* the lineage the service holds
  catalog,        \* the task list the catalog holds
  changedFiles,   \* result of getChangedFiles()
  config,         \* the action's inputs
  prContext,      \* github.context.payload.pull_request is set
  svcSelf,        \* the impact-analysis response lists the queried task itself
  contents,       \* base and head content of each changed file
  shaEnv,         \* GITHUB_BASE_SHA and GITHUB_HEAD_SHA are set
  parser,         \* which sql-parser module the script is deployed with
  given,          \* the record lists handed to the merge, as they were received
  pc,             \* position of run()
  matchedTasks,   \* matchedTasks
  idx,            \* index of the for-loop over matchedTasks
  direct,         \* Everydata.direct
  indirect,       \* Everydata.indirect
  perTask,        \* part_001: Everydata, one {direct, indirect} per matched task
  stack,          \* frames of the recursive walker that are suspended
  modelMap,       \* part_000: modelMap of the walk in progress
  allImpactedModels, \* part_000: allImpactedModels, connection name -> names
  calls,          \* every external request answered so far, in order
  failures,       \* how many of them failed
  failed,         \* core.setFailed was called
  comment,        \* "none", "posted", "error" or "skipped"
  summaryWritten, \* core.summary.write() completed
  outputSet,      \* core.setOutput("impact_markdown", ...) was called
  columnChanges,  \* the column changes the report lists, one entry per file
  runNo,          \* 1 for the first call of run(), 2 for the second
  firstRun,       \* what the first call of run() reported
  outstanding     \* requests sent whose answer run() has not received yet

env == <<variant, graph, catalog, changedFiles, config, prContext, svcSelf, contents, shaEnv,
        parser, given>>
walk == <<matchedTasks, idx, direct, indirect, perTask, stack, modelMap, allImpactedModels>>
report == <<comment, summaryWritten, outputSet>>
again == <<runNo, firstRun>>
vars == <<env, walk, report, again, pc, calls, failures, failed, columnChanges, outstanding>>

NoLists == [direct |-> <<>>, indirect |-> <<>>]

\* before the first call of run() has ended
NoRun == [direct |-> {}, indirect |-> {}, impacted |-> {}, clean |-> FALSE]

Init ==
  /\ variant \in Variants
  /\ \E in \in RunInputs :
       /\ graph = in.graph
       /\ catalog = in.catalog
       /\ changedFiles = in.files
       /\ config = in.config
       /\ contents = in.contents
       /\ shaEnv \in (IF in.contents = Unchanged(in.files) THEN {TRUE} ELSE BOOLEAN)
       /\ parser \in (IF variant \in {"p000", "p001", "p003", "p006", "p008"}
                          /\ in.contents # Unchanged(in.files)
                       THEN Parsers ELSE {"sql-parser"})
  /\ prContext \in BOOLEAN
  /\ svcSelf \in (IF variant = "main" THEN BOOLEAN ELSE {FALSE})
  /\ given = NoLists
  /\ pc = "tasks"
  /\ matchedTasks = <<>>
  /\ idx = 1
  /\ direct = <<>>
  /\ indirect = <<>>
  /\ perTask = <<>>
  /\ stack = <<>>
  /\ modelMap = <<>>
  /\ allImpactedModels = <<>>
  /\ calls = <<>>
  /\ failures = 0
  /\ failed = FALSE
  /\ comment = "none"
  /\ summaryWritten = FALSE
  /\ outputSet = FALSE
  /\ columnChanges = <<>>
  /\ runNo = 1
  /\ firstRun = NoRun
  /\ outstanding = 0

(***************************************************************************)
(* External requests.  A request made with an incomplete configuration     *)
(* is rejected; any other request may fail, MaxFailures times per run.     *)
(***************************************************************************)
\* the request cannot succeed: a credential is missing, or the base URL of a
\* script that builds its URLs from it (part_000 and part_007 have them
\* written out)
Rejected(api) ==
  /\ api # "comment"
  /\ \/ config.clientId = <<>>
     \/ config.clientSecret = <<>>
     \/ (config.baseUrl = <<>> /\ variant \notin {"p000", "p006", "p007"})

Outcomes(api) ==
  IF Rejected(api) THEN {FALSE}
  ELSE IF failures < MaxFailures THEN {TRUE, FALSE} ELSE {TRUE}

\* the answer of the request (or its failure) arrives and is logged
Issue(api, key, deep, ok) ==
  /\ calls' = Append(calls, [api |-> api, key |-> key, deep |-> deep, ok |-> ok])
  /\ failures' = IF ok \/ Rejected(api) THEN failures ELSE failures + 1

LineageCalls == SelectSeq(calls, LAMBDA c : c.api \in {"lineage", "impact"})

\* `await`: the step of run() that handles an answer is taken when the
\* request is out, and leaves no request out; a step that makes no request
\* is taken when none is out
Resume ==
  /\ outstanding = (IF Len(calls') > Len(calls) THEN 1 ELSE 0)
  /\ outstanding' = 0

(***************************************************************************)
(* Changed models and task matching                                        *)
(***************************************************************************)
\* index.js 160-163: names of the changed .sql files
ChangedModelsSql(files) ==
  LET sql == SelectSeq(files, LAMBDA f : EndsWith(f, SQL))
      names == [i \in 1..Len(sql) |-> BaseName(sql[i], ExtName(sql[i]))]
  IN  SelectSeq(names, LAMBDA n : n # <<>>)

\* a matched task as the walkers use it
Seed(t, entity) ==
  [ name |-> t.name, asset_id |-> t.asset_id, connection_id |-> t.connection_id,
    connection_name |-> t.connection_name, entity |-> entity ]

\* index.js 169-175: connection_type "dbt" and the name among the changed models
\* (part_003 117-125 is the same, but for the entity, which is task_id as it is)
MatchedTasksLoose(tasks, changedModels) ==
  LET m == SelectSeq(tasks, LAMBDA t : /\ t.connection_type = DBT
                                       /\ t.name \in Range(changedModels))
  IN  [i \in 1..Len(m) |->
         Seed(m[i], IF Truthy(m[i].task_id) \/ variant = "p003" THEN m[i].task_id ELSE <<>>)]

(***************************************************************************)
(* The catalog request                                                     *)
(***************************************************************************)
\* index.js 59-87 (the same in part_001 and part_003): the request is inside
\* try/catch, a failure yields []
GetTasksSafe ==
  /\ pc = "tasks"
  /\ variant \in {"main", "p001", "p003"}
  /\ \E ok \in Outcomes("catalog") :
       LET tasks == IF ok THEN catalog ELSE <<>>
           matched == MatchedTasksLoose(tasks, ChangedModelsSql(changedFiles))
       IN  /\ Issue("catalog", <<>>, FALSE, ok)
           /\ matchedTasks' = matched
           /\ perTask' = [i \in 1..Len(matched) |-> [direct |-> <<>>, indirect |-> <<>>]]
           /\ pc' = IF matched = <<>> THEN "comment" ELSE "direct"
  /\ UNCHANGED <<env, again, columnChanges, idx, direct, indirect, stack, modelMap, allImpactedModels,
                 report, failed>>
  /\ Resume

(***************************************************************************)
(* index.js: impact-analysis requests, merge and deduplication             *)
(***************************************************************************)
\* the service's answer to an impact-analysis request for the asset n: the
\* tables at most `depth` downstream edges below it
ImpactTables(n, depth) ==
  LET below == Within(graph, {n}, depth)
      T == SortedSeq(below \cup (IF svcSelf THEN {n} ELSE {}))
  IN  [k \in 1..Len(T) |-> Table(T[k], IF T[k] \in below THEN "downstream" ELSE "self")]

\* index.js 117-148: [] when the request fails
getImpactAnalysisData(asset_id, connection_id, entity, isDirect, ok) ==
  LET n == AssetOf(asset_id, connection_id, entity)
  IN  IF ~ok \/ n = 0 THEN <<>>
      ELSE ImpactTables(n, IF isDirect THEN 1 ELSE ImpactDepth)

\* `${x}` of a template literal
Str(x) ==
  IF x = Undefined THEN <<"u", "n", "d", "e", "f", "i", "n", "e", "d">>
  ELSE IF x = Null THEN <<"n", "u", "l", "l">>
  ELSE x

\* index.js 214
uniqueKey(item) ==
  Str(item.name) \o <<"-">> \o Str(item.connection_id) \o <<"-">> \o Str(item.asset_name)

\* index.js 223-231: the first item of every key is kept
RECURSIVE dedupFrom(_, _)
dedupFrom(arr, seen) ==
  IF arr = <<>> THEN <<>>
  ELSE LET key == uniqueKey(Head(arr))
       IN  IF key \in seen THEN dedupFrom(Tail(arr), seen)
           ELSE <<Head(arr)>> \o dedupFrom(Tail(arr), seen \cup {key})

dedup(arr) == dedupFrom(arr, {})

\* index.js 216-220
RemoveDirect(dir, ind) ==
  LET directKeys == {uniqueKey(dir[i]) : i \in 1..Len(dir)}
  IN  SelectSeq(ind, LAMBDA item : uniqueKey(item) \notin directKeys)

\* (a first loop that is left after its first pass)
MainDirectOnce ==
  /\ pc = "direct"
  /\ variant = "main"
  /\ \E ok \in Outcomes("impact") :
       LET task == matchedTasks[idx]
           directImpact == getImpactAnalysisData(task.asset_id, task.connection_id,
                                                 task.entity, TRUE, ok)
           filteredDirectImpact == SelectSeq(directImpact, LAMBDA t : t.name # task.name)
       IN  /\ Issue("impact", IdentityKey(task), FALSE, ok)
           /\ direct' = direct \o filteredDirectImpact
  /\ idx' = 1
  /\ pc' = "indirect"
  /\ UNCHANGED <<env, again, columnChanges, matchedTasks, indirect, perTask, stack, modelMap,
                 allImpactedModels, report, failed>>
  /\ Resume

\* index.js 185-199: one pass of the first loop
MainDirect ==
  /\ pc = "direct"
  /\ variant = "main"
  /\ \E ok \in Outcomes("impact") :
       LET task == matchedTasks[idx]
           directImpact == getImpactAnalysisData(task.asset_id, task.connection_id,
                                                 task.entity, TRUE, ok)
           filteredDirectImpact == SelectSeq(directImpact, LAMBDA t : t.name # task.name)
       IN  /\ Issue("impact", IdentityKey(task), FALSE, ok)
           /\ direct' = direct \o filteredDirectImpact
  /\ IF idx < Len(matchedTasks)
       THEN idx' = idx + 1 /\ pc' = "direct"
       ELSE idx' = 1 /\ pc' = "indirect"
  /\ UNCHANGED <<env, again, columnChanges, matchedTasks, indirect, perTask, stack, modelMap,
                 allImpactedModels, report, failed>>
  /\ Resume

\* index.js 202-234: one pass of the second loop; after the last pass the
\* direct items are removed from the indirect list and both are deduplicated
MainIndirect ==
  /\ pc = "indirect"
  /\ variant = "main"
  /\ \E ok \in Outcomes("impact") :
       LET task == matchedTasks[idx]
           indirectImpact == getImpactAnalysisData(task.asset_id, task.connection_id,
                                                   task.entity, FALSE, ok)
           all == indirect \o indirectImpact
       IN  /\ Issue("impact", IdentityKey(task), TRUE, ok)
           /\ IF idx < Len(matchedTasks)
                THEN /\ idx' = idx + 1
                     /\ pc' = "indirect"
                     /\ indirect' = all
                     /\ direct' = direct
                ELSE /\ idx' = idx
                     /\ pc' = "comment"
                     /\ indirect' = dedup(RemoveDirect(direct, all))
                     /\ direct' = dedup(direct)
  /\ UNCHANGED <<env, again, columnChanges, matchedTasks, perTask, stack, modelMap, allImpactedModels,
                 report, failed>>
  /\ Resume

(***************************************************************************)
(* The lineage request of the walkers                                      *)
(***************************************************************************)
\* the service's answer to a lineage request: the tables linked to the asset
\* the triple denotes, nothing for a triple that denotes no asset
LinkedTables(asset_id, connection_id, entity) ==
  LET n == AssetOf(asset_id, connection_id, entity)
  IN  IF n = 0 THEN <<>>
      ELSE [k \in 1..Len(graph[n]) |-> Table(graph[n][k].to, graph[n][k].flow)]

IsDownstream(table) == table.flow = "downstream"

\* frames of a suspended recursion, innermost first; a frame holds the items
\* its for-loop has not reached yet
Frame(items, task, first) == [items |-> items, task |-> task, first |-> first]

\* leave the loops that have no item left
RECURSIVE Unwind(_)
Unwind(st) ==
  IF st = <<>> THEN <<>>
  ELSE IF Head(st).items = <<>> THEN Unwind(Tail(st))
  ELSE st

Rest(st) == <<[Head(st) EXCEPT !.items = Tail(@)]>> \o Tail(st)

CanCall == Len(LineageCalls) < MaxCalls

\* the run is cut off: the bound on lineage calls is reached
Cutoff ==
  /\ pc \in {"walk", "direct"}
  /\ ~CanCall
  /\ pc' = "cutoff"
  /\ UNCHANGED <<env, again, columnChanges, walk, report, calls, failures, failed>>
  /\ Resume

(***************************************************************************)
(* part_003: direct loop and indirectlyImpactedModels                      *)
(***************************************************************************)
\* part_003 134-145, then the call of line 166
P003_Direct ==
  /\ pc = "direct"
  /\ variant = "p003"
  /\ CanCall
  /\ \E ok \in Outcomes("lineage") :
       LET task == matchedTasks[idx]
           lineageTables == IF ok THEN LinkedTables(task.asset_id, task.connection_id,
                                                    task.entity)
                            ELSE <<>>
           lineageData == SelectSeq(lineageTables, IsDownstream)
           dir == direct \o lineageData
       IN  /\ Issue("lineage", IdentityKey(task), FALSE, ok)
           /\ direct' = dir
           /\ IF idx < Len(matchedTasks)
                THEN idx' = idx + 1 /\ pc' = "direct" /\ stack' = stack
                ELSE /\ idx' = idx
                     /\ stack' = Unwind(<<Frame(dir, 0, TRUE)>>)
                     /\ pc' = IF dir = <<>> THEN "comment" ELSE "walk"
  /\ UNCHANGED <<env, again, columnChanges, matchedTasks, indirect, perTask, modelMap, allImpactedModels,
                 report, failed>>
  /\ Resume

\* part_003 147-164: one pass of the for-loop of the innermost call
P003_indirectlyImpactedModels ==
  /\ pc = "walk"
  /\ variant = "p003"
  /\ CanCall
  /\ \E ok \in Outcomes("lineage") :
       LET item == Head(Head(stack).items)
           lineageTables == IF ok THEN LinkedTables(item.asset_id, item.connection_id,
                                                    item.entity)
                            ELSE <<>>
           lineageData == SelectSeq(lineageTables, IsDownstream)
           st == IF lineageTables = <<>> THEN Unwind(Rest(stack))
                 ELSE Unwind(<<Frame(lineageData, 0, FALSE)>> \o Rest(stack))
       IN  /\ Issue("lineage", IdentityKey(item), FALSE, ok)
           /\ indirect' = Append(indirect, item)
           /\ stack' = st
           /\ pc' = IF st = <<>> THEN "comment" ELSE "walk"
  /\ UNCHANGED <<env, again, columnChanges, matchedTasks, idx, direct, perTask, modelMap, allImpactedModels,
                 report, failed>>
  /\ Resume

(***************************************************************************)
(* part_001: per-task direct loop and processIndirectImpacts               *)
(***************************************************************************)
\* part_001 272-273: new Map(items.map(item => [item.name, item])).values():
\* one item per name, at the place of the name's first item, the last item
\* of that name
RECURSIVE NamesInOrder(_, _)
NamesInOrder(arr, seen) ==
  IF arr = <<>> THEN <<>>
  ELSE IF Head(arr).name \in seen THEN NamesInOrder(Tail(arr), seen)
  ELSE <<Head(arr).name>> \o NamesInOrder(Tail(arr), seen \cup {Head(arr).name})

UniqueByName(arr) ==
  LET names == NamesInOrder(arr, {})
      last(nm) == CHOOSE i \in 1..Len(arr) :
                    /\ arr[i].name = nm
                    /\ \A j \in 1..Len(arr) : arr[j].name = nm => j <= i
  IN  [k \in 1..Len(names) |-> arr[last(names[k])]]

RECURSIVE Flatten(_)
Flatten(ss) == IF ss = <<>> THEN <<>> ELSE Head(ss) \o Flatten(Tail(ss))

AllDirect(pt) == Flatten([i \in 1..Len(pt) |-> pt[i].direct])
AllIndirect(pt) == Flatten([i \in 1..Len(pt) |-> pt[i].indirect])

\* part_001 213-216: the tasks from `from` on whose direct list is not empty
TasksToWalk(pt, from) == {j \in from..Len(pt) : pt[j].direct # <<>>}

\* the walk continues with the innermost loop that has items left, else with
\* the next matched task; when none is left the combined lists are built
P001_Continue(st, pt) ==
  IF st # <<>>
  THEN /\ stack' = st
       /\ pc' = "walk"
       /\ UNCHANGED <<direct, indirect>>
  ELSE LET after == IF stack = <<>> THEN 1 ELSE Head(stack).task + 1
           todo == TasksToWalk(pt, after)
       IN  IF todo # {}
           THEN LET j == CHOOSE k \in todo : \A m \in todo : k <= m
                IN  /\ stack' = <<Frame(pt[j].direct, j, TRUE)>>
                    /\ pc' = "walk"
                    /\ UNCHANGED <<direct, indirect>>
           ELSE /\ stack' = <<>>
                /\ pc' = "comment"
                /\ direct' = UniqueByName(AllDirect(pt))
                /\ indirect' = UniqueByName(AllIndirect(pt))

\* part_001 172-186: one pass of the direct loop
P001_Direct ==
  /\ pc = "direct"
  /\ variant = "p001"
  /\ CanCall
  /\ \E ok \in Outcomes("lineage") :
       LET task == matchedTasks[idx]
           lineageTables == IF ok THEN LinkedTables(task.asset_id, task.connection_id,
                                                    task.entity)
                            ELSE <<>>
           lineageData == SelectSeq(lineageTables, IsDownstream)
           pt == [perTask EXCEPT ![idx].direct = @ \o lineageData]
       IN  /\ Issue("lineage", IdentityKey(task), FALSE, ok)
           /\ perTask' = pt
           /\ IF idx < Len(matchedTasks)
                THEN /\ idx' = idx + 1
                     /\ pc' = "direct"
                     /\ UNCHANGED <<stack, direct, indirect>>
                ELSE /\ idx' = idx
                     /\ P001_Continue(<<>>, pt)
  /\ UNCHANGED <<env, again, columnChanges, matchedTasks, modelMap, allImpactedModels, report, failed>>
  /\ Resume

\* part_001 189-210: one pass of the for-loop of the innermost call
P001_processIndirectImpacts ==
  /\ pc = "walk"
  /\ variant = "p001"
  /\ CanCall
  /\ \E ok \in Outcomes("lineage") :
       LET top == Head(stack)
           item == Head(top.items)
           lineageTables == IF ok THEN LinkedTables(item.asset_id, item.connection_id,
                                                    item.entity)
                            ELSE <<>>
           downstream == SelectSeq(lineageTables, IsDownstream)
           pt == IF top.first THEN perTask
                 ELSE [perTask EXCEPT ![top.task].indirect = Append(@, item)]
           st == IF lineageTables = <<>> THEN Unwind(Rest(stack))
                 ELSE Unwind(<<Frame(downstream, top.task, FALSE)>> \o Rest(stack))
       IN  /\ Issue("lineage", IdentityKey(item), FALSE, ok)
           /\ perTask' = pt
           /\ P001_Continue(st, pt)
  /\ UNCHANGED <<env, again, columnChanges, matchedTasks, idx, modelMap, allImpactedModels, report, failed>>
  /\ Resume

(***************************************************************************)
(* Strict matching and the catalog request without error handling          *)
(***************************************************************************)
\* part_000 147-154: {job, model} of every changed .yml or .sql file
ChangedModelsStrict(files) ==
  LET fs == SelectSeq(files, LAMBDA f : EndsWith(f, YML) \/ EndsWith(f, SQL))
  IN  [i \in 1..Len(fs) |->
         LET parts == SplitSep(fs[i])
         IN  [ job |-> IF Len(parts) >= 2 THEN parts[Len(parts) - 1] ELSE Null,
               model |-> BaseName(fs[i], ExtName(fs[i])) ]]

\* part_000 158-171
MatchedTasksStrict(tasks, changedModels) ==
  LET m == SelectSeq(tasks, LAMBDA t :
             /\ t.connection_type = DBT
             /\ \E k \in 1..Len(changedModels) :
                  /\ changedModels[k].model = t.name
                  /\ changedModels[k].job = t.job_name)
  IN  [i \in 1..Len(m) |-> Seed(m[i], m[i].task_id)]

\* part_006 145-160: the job of the changed file is compared with the task's
\* asset_name, the entity of the seed is the task's entity
MatchedTasksByAsset(tasks, changedModels) ==
  LET m == SelectSeq(tasks, LAMBDA t :
             /\ t.connection_type = DBT
             /\ \E k \in 1..Len(changedModels) :
                  /\ changedModels[k].model = t.name
                  /\ changedModels[k].job = t.asset_name)
  IN  [i \in 1..Len(m) |-> Seed(m[i], m[i].entity)]

\* part_008 40-66 (the same in part_000 37-59 and part_006 39-52): no
\* try/catch, a failed request throws into run()'s catch, which calls
\* core.setFailed
GetTasksUnsafe ==
  /\ pc = "tasks"
  /\ variant \in {"p000", "p006", "p008"}
  /\ \E ok \in Outcomes("catalog") :
       LET matched == IF variant = "p006"
                      THEN MatchedTasksByAsset(catalog, ChangedModelsStrict(changedFiles))
                      ELSE MatchedTasksStrict(catalog, ChangedModelsStrict(changedFiles))
       IN  /\ Issue("catalog", <<>>, FALSE, ok)
           /\ IF ok
                THEN /\ matchedTasks' = matched
                     /\ failed' = failed
                     /\ stack' = IF variant = "p000" /\ matched # <<>>
                                 THEN <<Frame(<<matched[1]>>, 1, TRUE)>> ELSE <<>>
                     /\ pc' = IF matched = <<>> THEN "comment"
                              ELSE IF variant = "p000" THEN "walk" ELSE "direct"
                ELSE /\ matchedTasks' = matchedTasks
                     /\ failed' = TRUE
                     /\ stack' = stack
                     /\ pc' = "failed"
  /\ UNCHANGED <<env, again, columnChanges, idx, direct, indirect, perTask, modelMap, allImpactedModels, report>>
  /\ Resume

(***************************************************************************)
(* part_000: exploreDownstreams with the visited map                       *)
(***************************************************************************)
\* part_000 74
buildModelKey(model) ==
  Str(model.asset_id) \o <<"_">> \o Str(model.connection_id) \o <<"_">> \o Str(model.entity)

MapKeys(mm) == {mm[i].key : i \in 1..Len(mm)}

\* (a map that outlives the call, as a default created once would)
KeptModelMap(returned) == returned

\* part_000 77: the default value of the parameter modelMap, {}, is evaluated
\* at every call that leaves the parameter out (line 176); the map the call
\* before it returned is not used again
NewModelMap(returned) == <<>>

\* part_000 80-86, up to the next await: models whose key is in the map are
\* passed over, the first other model is entered into the map and explored
RECURSIVE Visit(_, _)
Visit(st, mm) ==
  IF st = <<>> THEN [stack |-> <<>>, modelMap |-> mm]
  ELSE IF Head(st).items = <<>> THEN Visit(Tail(st), mm)
  ELSE LET model == Head(Head(st).items)
           key == buildModelKey(model)
       IN  IF key \in MapKeys(mm) THEN Visit(Rest(st), mm)
           ELSE [stack |-> st, modelMap |-> Append(mm, [key |-> key, model |-> model])]

\* part_000 177-183: the names of the map's models are added to the list of
\* the task's connection, each name once
RECURSIVE PushNames(_, _)
PushNames(names, models) ==
  IF models = <<>> THEN names
  ELSE PushNames(IF Head(models).name \in Range(names) THEN names
                 ELSE Append(names, Head(models).name),
                 Tail(models))

AddImpacted(aim, conn, mm) ==
  LET models == [i \in 1..Len(mm) |-> mm[i].model]
      known == {i \in 1..Len(aim) : aim[i].conn = conn}
      withConn == IF known = {} THEN Append(aim, [conn |-> conn, names |-> <<>>]) ELSE aim
      at == CHOOSE i \in 1..Len(withConn) : withConn[i].conn = conn
  IN  [withConn EXCEPT ![at].names = PushNames(@, models)]

\* part_000 77-89 and 175-184: one fetchDownstreams request and what follows
\* it up to the next request
P000_exploreDownstreams ==
  /\ pc = "walk"
  /\ variant = "p000"
  /\ CanCall
  /\ \E ok \in Outcomes("lineage") :
       LET model == Head(Head(stack).items)
           task == matchedTasks[idx]
           downstreams == SelectSeq(LinkedTables(model.asset_id, model.connection_id,
                                                 model.entity), IsDownstream)
           v == Visit(<<Frame(downstreams, idx, FALSE)>> \o Rest(stack), modelMap)
       IN  /\ Issue("lineage", IdentityKey(model), FALSE, ok)
           /\ IF ~ok
                THEN /\ failed' = TRUE
                     /\ pc' = "failed"
                     /\ UNCHANGED <<stack, modelMap, allImpactedModels, idx>>
                ELSE /\ failed' = failed
                     /\ IF v.stack # <<>>
                          THEN /\ stack' = v.stack
                               /\ modelMap' = v.modelMap
                               /\ pc' = "walk"
                               /\ UNCHANGED <<allImpactedModels, idx>>
                          ELSE /\ allImpactedModels' =
                                    AddImpacted(allImpactedModels, task.connection_name,
                                                v.modelMap)
                               /\ modelMap' = NewModelMap(v.modelMap)
                               /\ IF idx < Len(matchedTasks)
                                    THEN /\ idx' = idx + 1
                                         /\ stack' = <<Frame(<<matchedTasks[idx + 1]>>,
                                                             idx + 1, TRUE)>>
                                         /\ pc' = "walk"
                                    ELSE /\ idx' = idx
                                         /\ stack' = <<>>
                                         /\ pc' = "comment"
  /\ UNCHANGED <<env, again, columnChanges, matchedTasks, direct, indirect, perTask, report>>
  /\ Resume

(***************************************************************************)
(* part_008: direct loop and indirectlyImpactedModels                      *)
(***************************************************************************)
Frame8(items, x, entity) == [items |-> items, x |-> x, entity |-> entity]

\* part_008 122-135, then the call of line 153
P008_Direct ==
  /\ pc = "direct"
  /\ variant = "p008"
  /\ CanCall
  /\ \E ok \in Outcomes("lineage") :
       LET task == matchedTasks[idx]
           lineageTables == LinkedTables(task.asset_id, task.connection_id, task.entity)
           lineageData == SelectSeq(lineageTables,
                            LAMBDA t : t.flow = "downstream" /\ t.name # task.name)
           tagged == [k \in 1..Len(lineageData) |->
                        [lineageData[k] EXCEPT !.modelEntity = task.entity]]
           dir == direct \o tagged
       IN  /\ Issue("lineage", IdentityKey(task), FALSE, ok)
           /\ IF ~ok
                THEN /\ failed' = TRUE
                     /\ pc' = "failed"
                     /\ UNCHANGED <<direct, idx, stack>>
                ELSE /\ failed' = failed
                     /\ direct' = dir
                     /\ IF idx < Len(matchedTasks)
                          THEN idx' = idx + 1 /\ pc' = "direct" /\ stack' = stack
                          ELSE /\ idx' = idx
                               /\ stack' = Unwind(<<Frame8(dir, "job", <<>>)>>)
                               /\ pc' = IF dir = <<>> THEN "comment" ELSE "walk"
  /\ UNCHANGED <<env, again, columnChanges, matchedTasks, indirect, perTask, modelMap, allImpactedModels, report>>
  /\ Resume

\* part_008 137-151: one pass of the for-loop of the innermost call
P008_indirectlyImpactedModels ==
  /\ pc = "walk"
  /\ variant = "p008"
  /\ CanCall
  /\ \E ok \in Outcomes("lineage") :
       LET top == Head(stack)
           item == Head(top.items)
           entity_final == IF top.x = "task" /\ Truthy(top.entity) THEN top.entity
                           ELSE item.modelEntity
           lineageTables == LinkedTables(item.asset_id, item.connection_id, entity_final)
           filtered == SelectSeq(lineageTables,
                         LAMBDA t : t.flow = "downstream" /\ t.name # item.name)
           st == IF lineageTables = <<>> THEN Unwind(Rest(stack))
                 ELSE Unwind(<<Frame8(filtered, "task", entity_final)>> \o Rest(stack))
       IN  /\ Issue("lineage", <<item.asset_id, item.connection_id, entity_final>>, FALSE, ok)
           /\ IF ~ok
                THEN /\ failed' = TRUE
                     /\ pc' = "failed"
                     /\ UNCHANGED <<indirect, stack>>
                ELSE /\ failed' = failed
                     /\ indirect' = Append(indirect, item)
                     /\ stack' = st
                     /\ pc' = IF st = <<>> THEN "comment" ELSE "walk"
  /\ UNCHANGED <<env, again, columnChanges, matchedTasks, idx, direct, perTask, modelMap, allImpactedModels, report>>
  /\ Resume

(***************************************************************************)
(* part_005: findMatchingTasks and analyzeImpact                           *)
(***************************************************************************)
\* part_005 59-77
findMatchingTasks(tasks, changedModels) ==
  LET m == SelectSeq(tasks, LAMBDA t :
             /\ t.connection_type # Undefined
             /\ ToLowerCase(t.connection_type) = DBT
             /\ t.name # Undefined
             /\ \E k \in 1..Len(changedModels) :
                  ToLowerCase(t.name) = ToLowerCase(changedModels[k]))
      mapped == [i \in 1..Len(m) |-> Seed(m[i], m[i].task_id)]
  IN  SelectSeq(mapped, LAMBDA t : /\ Truthy(t.asset_id) /\ Truthy(t.connection_id)
                                   /\ Truthy(t.entity))

\* part_005 93-95
ChangedModels005(files) ==
  LET sql == SelectSeq(files, LAMBDA f : EndsWith(f, SQL))
  IN  [i \in 1..Len(sql) |-> BaseName(sql[i], SQL)]

\* part_005 84-141: up to the first lineage request
P005_analyzeImpact ==
  /\ pc = "tasks"
  /\ variant = "p005"
  /\ LET changedModels == ChangedModels005(changedFiles)
     IN  IF changedModels = <<>>
         THEN /\ pc' = "output"
              /\ UNCHANGED <<matchedTasks, calls, failures, failed>>
         ELSE \E ok \in Outcomes("catalog") :
                LET matched == findMatchingTasks(catalog, changedModels)
                IN  /\ Issue("catalog", <<>>, FALSE, ok)
                    /\ IF ok
                         THEN /\ matchedTasks' = matched
                              /\ failed' = failed
                              /\ pc' = IF matched = <<>> THEN "output" ELSE "direct"
                         ELSE /\ matchedTasks' = matchedTasks
                              /\ failed' = TRUE
                              /\ pc' = "failed"
  /\ UNCHANGED <<env, again, columnChanges, idx, direct, indirect, perTask, stack, modelMap,
                 allImpactedModels, report>>
  /\ Resume

\* part_005 144-175: one pass of the lineage loop, the request inside try/catch
P005_Direct ==
  /\ pc = "direct"
  /\ variant = "p005"
  /\ \E ok \in Outcomes("lineage") :
       LET task == matchedTasks[idx]
           lineageData == LinkedTables(task.asset_id, task.connection_id, task.entity)
       IN  /\ Issue("lineage", IdentityKey(task), FALSE, ok)
           /\ direct' = IF ok THEN direct \o SelectSeq(lineageData, IsDownstream)
                        ELSE direct
  /\ IF idx < Len(matchedTasks)
       THEN idx' = idx + 1 /\ pc' = "direct"
       ELSE idx' = idx /\ pc' = "output"
  /\ UNCHANGED <<env, again, columnChanges, matchedTasks, indirect, perTask, stack, modelMap,
                 allImpactedModels, report, failed>>
  /\ Resume

\* part_005 207-223: the output value first, then the comment, not guarded
P005_Publish ==
  /\ pc = "output"
  /\ variant = "p005"
  /\ outputSet' = TRUE
  /\ IF prContext
       THEN \E ok \in Outcomes("comment") :
              /\ Issue("comment", <<>>, FALSE, ok)
              /\ comment' = IF ok THEN "posted" ELSE "error"
              /\ failed' = ~ok
              /\ pc' = IF ok THEN "summary" ELSE "failed"
       ELSE /\ comment' = "skipped"
            /\ pc' = "summary"
            /\ UNCHANGED <<calls, failures, failed>>
  /\ UNCHANGED <<env, again, columnChanges, walk, summaryWritten>>
  /\ Resume

(***************************************************************************)
(* part_007: the inputs are required, a token is requested, the files are  *)
(* examined by stubs that make no request                                  *)
(***************************************************************************)
\* part_007 70-121 and 133-139: getInput with required: true throws on an
\* empty input; authenticate is the first request, not guarded; getFileStatus
\* and getColumnDiff (141-143, 205-207) are stubs, so that no lineage request
\* follows; the output value is set
P007_run ==
  /\ pc = "tasks"
  /\ variant = "p007"
  /\ IF config.clientId = <<>> \/ config.clientSecret = <<>> \/ changedFiles = <<>>
       THEN /\ failed' = TRUE
            /\ pc' = "failed"
            /\ UNCHANGED <<calls, failures, outputSet>>
       ELSE \E ok \in Outcomes("auth") :
              /\ Issue("auth", <<>>, FALSE, ok)
              /\ failed' = ~ok
              /\ outputSet' = ok
              /\ pc' = IF ok THEN "comment" ELSE "failed"
  /\ UNCHANGED <<env, again, columnChanges, walk, comment, summaryWritten>>
  /\ Resume

\* part_007 123-128 and 209-218: the comment is posted when the environment
\* holds a token, not guarded; no job summary is written
P007_postPrComment ==
  /\ pc = "comment"
  /\ variant = "p007"
  /\ \E token \in BOOLEAN :
       IF token
         THEN \E ok \in Outcomes("comment") :
                /\ Issue("comment", <<>>, FALSE, ok)
                /\ comment' = IF ok THEN "posted" ELSE "error"
                /\ failed' = ~ok
                /\ pc' = IF ok THEN "done" ELSE "failed"
         ELSE /\ comment' = "skipped"
              /\ pc' = "done"
              /\ UNCHANGED <<calls, failures, failed>>
  /\ UNCHANGED <<env, again, columnChanges, walk, summaryWritten, outputSet>>
  /\ Resume

(***************************************************************************)
(* The second script of index.js (390-702) and of part_005 (234-477): the  *)
(* job assets, then one lineage request per matched asset.                 *)
(***************************************************************************)
\* index.js 520-523: names of the changed .yml and .sql files, each once
ChangedModelsJob(files) ==
  LET picked == SelectSeq(files, LAMBDA f : EndsWith(f, YML) \/ EndsWith(f, SQL))
      names == [i \in 1..Len(picked) |-> BaseName(picked[i], ExtName(picked[i]))]
  IN  SelectSeq(Distinct(names), LAMBDA n : n # <<>>)

\* index.js 527-537; the entity of the lineage request is the asset id (443)
MatchedAssets(jobAssets, changedModels) ==
  LET m == SelectSeq(jobAssets, LAMBDA asset : /\ asset.name \in Range(changedModels)
                                               /\ asset.connection_type = DBT)
  IN  [i \in 1..Len(m) |-> Seed(m[i], m[i].asset_id)]

\* what the lineage service links to an asset as a whole
RECURSIVE TablesOf(_)
TablesOf(ns) ==
  IF ns = <<>> THEN <<>>
  ELSE [k \in 1..Len(graph[Head(ns)]) |->
          Table(graph[Head(ns)][k].to, graph[Head(ns)][k].flow)] \o TablesOf(Tail(ns))

AssetLinkedTables(asset_id, connection_id) ==
  TablesOf(SortedSeq({n \in Assets : /\ AssetRecord(n).asset_id = asset_id
                                     /\ AssetRecord(n).connection_id = connection_id}))

\* index.js 525-537 (part_005 372-385): the request is not guarded
GetJobAssets ==
  /\ pc = "tasks"
  /\ variant \in {"main2", "p005b"}
  /\ \E ok \in Outcomes("catalog") :
       LET matched == MatchedAssets(catalog, ChangedModelsJob(changedFiles))
       IN  /\ Issue("catalog", <<>>, FALSE, ok)
           /\ matchedTasks' = IF ok THEN matched ELSE matchedTasks
           /\ failed' = ~ok
           /\ pc' = IF ~ok THEN "failed" ELSE IF matched = <<>> THEN "comment" ELSE "direct"
  /\ UNCHANGED <<env, again, columnChanges, idx, direct, indirect, perTask, stack, modelMap,
                 allImpactedModels, report>>
  /\ Resume

\* index.js 540-548: downstreamAssetsMap[table.connection_name].push(table.name)
PushByConnection(map, table) ==
  LET known == {i \in 1..Len(map) : map[i].conn = table.connection_name}
      withConn == IF known = {} THEN Append(map, [conn |-> table.connection_name, names |-> <<>>])
                  ELSE map
      at == CHOOSE i \in 1..Len(withConn) : withConn[i].conn = table.connection_name
  IN  [withConn EXCEPT ![at].names = Append(@, table.name)]

RECURSIVE PushAllByConnection(_, _)
PushAllByConnection(map, tables) ==
  IF tables = <<>> THEN map
  ELSE PushAllByConnection(PushByConnection(map, Head(tables)), Tail(tables))

\* index.js 539-549 (part_005 387-398, part_006 162-172): one pass of the
\* loop over the matched assets; the request is not guarded; part_006 sends
\* the entity too
GetLineageData ==
  /\ pc = "direct"
  /\ variant \in {"main2", "p005b", "p006"}
  /\ \E ok \in Outcomes("lineage") :
       LET asset == matchedTasks[idx]
           lineageTables == IF variant = "p006"
                            THEN LinkedTables(asset.asset_id, asset.connection_id,
                                              asset.entity)
                            ELSE AssetLinkedTables(asset.asset_id, asset.connection_id)
           downstream == SelectSeq(lineageTables, IsDownstream)
       IN  /\ Issue("lineage", IdentityKey(asset), FALSE, ok)
           /\ failed' = ~ok
           /\ direct' = IF ok THEN direct \o downstream ELSE direct
           /\ allImpactedModels' = IF ok /\ variant \in {"main2", "p006"}
                                   THEN PushAllByConnection(allImpactedModels, downstream)
                                   ELSE allImpactedModels
           /\ idx' = IF ok /\ idx < Len(matchedTasks) THEN idx + 1 ELSE idx
           /\ pc' = IF ~ok THEN "failed"
                    ELSE IF idx < Len(matchedTasks) THEN "direct" ELSE "comment"
  /\ UNCHANGED <<env, again, columnChanges, matchedTasks, indirect, perTask, stack, modelMap,
                 report>>
  /\ Resume

(***************************************************************************)
(* Column changes of the changed files.  The files are read synchronously  *)
(* (git show through execSync, or the file system), so this part runs with *)
(* the step that publishes the report.                                     *)
(***************************************************************************)
\* index.js 299-300: a revision is known from the environment or from the
\* pull request
HaveSha == shaEnv \/ prContext

\* sql-parser.js 80-95, getFileContent(sha, file): null when git show fails
GitShow(i, side) ==
  IF HaveSha THEN (IF side = "base" THEN contents[i].base ELSE contents[i].head) ELSE Null

\* the file in the folder base/ and in the working directory
OnDisk(i, side) == IF side = "base" THEN contents[i].base ELSE contents[i].head

FilesWith(ext) == SelectSeq([i \in 1..Len(changedFiles) |-> i],
                            LAMBDA i : EndsWith(changedFiles[i], ext))

Entry(i, d) ==
  [file |-> changedFiles[i], added |-> d.added, removed |-> d.removed,
   modified |-> d.modified]

NoChange(d) == d.added = <<>> /\ d.removed = <<>> /\ d.modified = <<>>

\* changes.push(...) when a list is not empty
Pushed(i, d) == IF NoChange(d) THEN <<>> ELSE <<Entry(i, d)>>

\* extractColumnsFromSQL of the module in use
SqlColumns(content) ==
  IF parser = "part_010" THEN extractColumnsFromSQL_010(content)
  ELSE extractColumnsFromSQL(content)

\* index.js 330-339 (part_001 298-309, part_003 187-204, part_000 206-222,
\* part_008 182-200, index.js 566-584): one .sql file
SqlEntry(i, base, head) ==
  IF ~Truthy(head) THEN <<>>
  ELSE Pushed(i, compareNames(IF Truthy(base) THEN SqlColumns(base) ELSE <<>>,
                              SqlColumns(head)))

\* index.js 299-328 with the extractor of line 355: one .yml file; an
\* exception is caught for the file (341-343)
YmlEntryByName(i) ==
  LET base == GitShow(i, "base")
      head == GitShow(i, "head")
  IN  IF ~Truthy(head) THEN <<>>
      ELSE LET baseCols == IF Truthy(base) THEN extractColumnsFromYML(base, changedFiles[i])
                           ELSE <<>>
               headCols == extractColumnsFromYML(head, changedFiles[i])
           IN  IF NameThrows(baseCols) \/ NameThrows(headCols) THEN <<>>
               ELSE Pushed(i, compareByName(baseCols, headCols))

\* extractColumnsFromYML called with the content alone
YmlNames(content) ==
  IF parser = "part_010" THEN extractColumnsFromYML_010(content)
  ELSE extractColumnsFromYML(content, Undefined)

\* part_001 292-309 with the extractor of line 325 (part_003 220-240)
YmlEntryNames(i) ==
  LET base == GitShow(i, "base")
      head == GitShow(i, "head")
  IN  IF ~Truthy(head) THEN <<>>
      ELSE LET baseCols == IF Truthy(base) THEN YmlNames(base) ELSE <<>>
               headCols == YmlNames(head)
           IN  Pushed(i, compareNames(baseCols, headCols))

\* index.js 553-561 (part_000 187-195): fs.existsSync(path) ?
\* extractColumnsFromYaml(path) : {}, on both sides
YmlEntryMaps(i) ==
  LET baseColumns == IF OnDisk(i, "base") # Null THEN extractColumnsFromYaml(OnDisk(i, "base"))
                     ELSE <<>>
      headColumns == IF OnDisk(i, "head") # Null THEN extractColumnsFromYaml(OnDisk(i, "head"))
                     ELSE <<>>
  IN  Pushed(i, IF variant = "p005b" THEN compareColumnsDetailed(baseColumns, headColumns)
                ELSE compareColumns(baseColumns, headColumns))

\* index.js 565-566 and 590-591: github.event is undefined, so that the
\* revision can only come from the environment
ColumnsThrow == variant = "main2" /\ ~shaEnv /\ FilesWith(SQL) # <<>>

\* one pass of a loop over the changed files: what it does to file i
Pass(kind, is) == [k \in 1..Len(is) |-> [kind |-> kind, file |-> is[k]]]

\* the passes of the run, in the order the script makes them: index.js
\* 349-355 (part_001 319-325, part_003 187-240), part_000 187-222 (part_006
\* 175-238), part_008 183-200, index.js 553-611, part_005 399-407
ColumnPasses ==
  CASE variant = "main" -> Pass("sql", FilesWith(SQL)) \o Pass("ymlByName", FilesWith(YML))
    [] variant \in {"p001", "p003"} ->
         Pass("sql", FilesWith(SQL)) \o Pass("ymlNames", FilesWith(YML))
    [] variant \in {"p000", "p006"} ->
         Pass("ymlMaps", FilesWith(YML)) \o Pass("sql", FilesWith(SQL))
    [] variant = "p008" -> Pass("sql", FilesWith(SQL))
    [] variant = "main2" ->
         Pass("ymlMaps", FilesWith(YML)) \o Pass("sql", FilesWith(SQL))
         \o Pass("sqlByRef", FilesWith(SQL))
    [] variant = "p005b" -> Pass("ymlMaps", FilesWith(YML))
    [] OTHER -> <<>>

\* the base content a .sql pass compares with: git show of the base
\* revision, or of the ref "base" of index.js 592 when it resolves (baseRef)
SqlBase(p, baseRef) ==
  IF p.kind = "sqlByRef" THEN (IF baseRef THEN contents[p.file].base ELSE Null)
  ELSE GitShow(p.file, "base")

\* the head content: git show of the head revision, or of the ref "HEAD"
\* (index.js 593)
SqlHead(p) == IF p.kind = "sqlByRef" THEN contents[p.file].head ELSE GitShow(p.file, "head")

PassEntry(p, baseRef) ==
  CASE p.kind \in {"sql", "sqlByRef"} -> SqlEntry(p.file, SqlBase(p, baseRef), SqlHead(p))
    [] p.kind = "ymlByName" -> YmlEntryByName(p.file)
    [] p.kind = "ymlNames" -> YmlEntryNames(p.file)
    [] p.kind = "ymlMaps" -> YmlEntryMaps(p.file)

RECURSIVE Each(_, _)
Each(ps, baseRef) ==
  IF ps = <<>> THEN <<>> ELSE PassEntry(Head(ps), baseRef) \o Each(Tail(ps), baseRef)

\* the column changes of the run
ProcessColumns(baseRef) == Each(ColumnPasses, baseRef)

(***************************************************************************)
(* Publishing the report                                                   *)
(***************************************************************************)
\* index.js 360: github.context.payload.pull_request
HasPullRequest == prContext

\* index.js 360-372 (the same in part_001 and part_003): the comment is
\* posted in a pull-request context, a failure of the request is logged
PostCommentSafe ==
  /\ pc = "comment"
  /\ variant \in {"main", "p001", "p003"}
  /\ IF HasPullRequest
       THEN \E ok \in Outcomes("comment") :
              /\ Issue("comment", <<>>, FALSE, ok)
              /\ comment' = IF ok THEN "posted" ELSE "error"
       ELSE /\ comment' = "skipped"
            /\ UNCHANGED <<calls, failures>>
  /\ columnChanges' = ProcessColumns(FALSE)
  /\ pc' = "summary"
  /\ UNCHANGED <<env, again, walk, summaryWritten, outputSet, failed>>
  /\ Resume

\* part_000 273-284 (the same in part_008 208-219, index.js 680-691,
\* part_005 455-466 and part_006 296-307): the request is not guarded, a failure throws into
\* run()'s catch, as does an exception of the column part before it;
\* github.getOctokit(githubToken) is called before the context is looked at,
\* and throws when the input GITHUB_TOKEN is empty
PostCommentUnsafe ==
  /\ pc = "comment"
  /\ variant \in {"p000", "p006", "p008", "main2", "p005b"}
  /\ IF ColumnsThrow
       THEN /\ failed' = TRUE
            /\ pc' = "failed"
            /\ UNCHANGED <<calls, failures, comment, columnChanges>>
       ELSE /\ \E baseRef \in (IF variant = "main2" THEN BOOLEAN ELSE {FALSE}) :
                 columnChanges' = ProcessColumns(baseRef)
            /\ \E token \in BOOLEAN :
                 IF ~token
                 THEN /\ failed' = TRUE
                      /\ pc' = "failed"
                      /\ UNCHANGED <<calls, failures, comment>>
                 ELSE IF HasPullRequest
                 THEN \E ok \in Outcomes("comment") :
                        /\ Issue("comment", <<>>, FALSE, ok)
                        /\ comment' = IF ok THEN "posted" ELSE "error"
                        /\ failed' = ~ok
                        /\ pc' = IF ok THEN "summary" ELSE "failed"
                 ELSE /\ comment' = "skipped"
                      /\ pc' = "summary"
                      /\ UNCHANGED <<calls, failures, failed>>
  /\ UNCHANGED <<env, again, walk, summaryWritten, outputSet>>
  /\ Resume

\* index.js 375-379: job summary, then the output value
WriteSummary ==
  /\ pc = "summary"
  /\ summaryWritten' = TRUE
  /\ outputSet' = TRUE
  /\ pc' = "done"
  /\ UNCHANGED <<env, again, columnChanges, walk, comment, calls, failures, failed>>
  /\ Resume

\* the names reported under each connection, as sets
ImpactedSets(aim) == {<<aim[i].conn, Range(aim[i].names)>> : i \in 1..Len(aim)}

\* index.js 387 (the last line of every script): run() is called once more in
\* the same process, against the same services; everything run() declares is
\* created anew, what lives outside run() is as the first call left it
Rerun ==
  /\ pc = "done"
  /\ runNo = 1
  /\ runNo' = 2
  /\ firstRun' = [direct |-> Range(direct), indirect |-> Range(indirect),
                  impacted |-> ImpactedSets(allImpactedModels),
                  clean |-> \A i \in 1..Len(calls) : calls[i].ok]
  /\ pc' = "tasks"
  /\ matchedTasks' = <<>>
  /\ idx' = 1
  /\ direct' = <<>>
  /\ indirect' = <<>>
  /\ perTask' = <<>>
  /\ stack' = <<>>
  /\ allImpactedModels' = <<>>
  /\ calls' = <<>>
  /\ comment' = "none"
  /\ summaryWritten' = FALSE
  /\ outputSet' = FALSE
  /\ columnChanges' = <<>>
  /\ UNCHANGED <<env, modelMap, failures, failed>>
  /\ Resume

\* the step of run() that comes next makes a request: the catalog or token
\* request, a lineage or impact request, or the comment
WillCall ==
  CASE pc = "tasks" ->
         /\ variant = "p005" => ChangedModels005(changedFiles) # <<>>
         /\ variant = "p007" => /\ config.clientId # <<>>
                                /\ config.clientSecret # <<>>
                                /\ changedFiles # <<>>
    [] pc \in {"direct", "indirect", "walk"} -> CanCall
    [] pc = "output" -> HasPullRequest
    [] pc = "comment" ->
         /\ variant # "p007" => HasPullRequest
         /\ variant \in {"p000", "p006", "p008", "main2", "p005b"} => ~ColumnsThrow
    [] OTHER -> FALSE

\* a run() that does not wait for the answer before it goes on
NotAwaited == TRUE

\* `await`: run() sends a request only when none of its own is unanswered
Awaited == outstanding = 0

\* axios.post / axios.get / createComment: the request leaves, run() is
\* suspended until its answer
Send ==
  /\ WillCall
  /\ Awaited
  /\ outstanding' = outstanding + 1
  /\ UNCHANGED <<env, walk, report, again, pc, calls, failures, failed, columnChanges>>

Next ==
  \/ Send
  \/ GetTasksSafe
  \/ MainDirect
  \/ MainIndirect
  \/ P003_Direct
  \/ P003_indirectlyImpactedModels
  \/ P001_Direct
  \/ P001_processIndirectImpacts
  \/ GetTasksUnsafe
  \/ GetJobAssets
  \/ GetLineageData
  \/ P000_exploreDownstreams
  \/ P008_Direct
  \/ P008_indirectlyImpactedModels
  \/ P005_analyzeImpact
  \/ P005_Direct
  \/ P005_Publish
  \/ P007_run
  \/ P007_postPrComment
  \/ PostCommentUnsafe
  \/ Cutoff
  \/ PostCommentSafe
  \/ WriteSummary
  \/ Rerun

Spec == Init /\ [][Next]_vars

(***************************************************************************)
(* Vocabulary of the properties                                            *)
(***************************************************************************)
\* the walk and the merge are over, the lists are those of the report
WalkDone == pc \in {"comment", "output", "summary", "done"}

SomeCallFailed(apis) == \E i \in 1..Len(calls) : calls[i].api \in apis /\ ~calls[i].ok
NoCallFailed == ~SomeCallFailed({"catalog", "lineage", "impact", "auth", "comment"})

Ids(list) == {IdentityKey(list[i]) : i \in 1..Len(list)}
NoRepeat(list) ==
  \A i, j \in 1..Len(list) : IdentityKey(list[i]) = IdentityKey(list[j]) => i = j
AssetKey(n) == IdentityKey(Table(n, "downstream"))

\* the assets the matched tasks denote
SeedAssets ==
  {AssetOf(matchedTasks[i].asset_id, matchedTasks[i].connection_id, matchedTasks[i].entity) :
     i \in 1..Len(matchedTasks)} \ {0}
\* one downstream edge below a seed; two or more edges below a seed
AtDepthOne == UNION {DownstreamOf(graph, n) : n \in SeedAssets}
Deeper == Within(graph, AtDepthOne, NumAssets)

\* part_000 reports names per connection
ImpactedNames == UNION {Range(allImpactedModels[i].names) : i \in 1..Len(allImpactedModels)}

\* C1: after the walk and merge no asset identity appears twice in the direct
\* list, none appears twice in the indirect list, and none is in both lists
\* (index.js, part_003).
C1_NoDuplicateIdentity ==
  (variant \in {"main", "p003"} /\ WalkDone) =>
    /\ NoRepeat(direct)
    /\ NoRepeat(indirect)
    /\ Ids(direct) \cap Ids(indirect) = {}

\* C2: an identity one edge below some seed and also two or more edges below
\* some seed is in the direct list and not in the indirect list (index.js,
\* part_001, part_003; runs in which no request failed).
C2_DirectPrecedence ==
  (variant \in {"main", "p001", "p003"} /\ WalkDone /\ NoCallFailed) =>
    \A n \in AtDepthOne \cap Deeper :
      AssetKey(n) \in Ids(direct) /\ AssetKey(n) \notin Ids(indirect)

\* C3: on the cycle a -> b -> a, walked from the seed a, the walker stops
\* after finitely many lineage requests (it never reaches the bound on
\* requests) and reports a and b once each (part_000, part_001, part_008).
CycleCase ==
  /\ graph = CycleGraph
  /\ Len(matchedTasks) = 1
  /\ SeedAssets = {1}
  /\ NoCallFailed

ReportedOnce(n) ==
  IF variant = "p000"
  THEN AssetRecord(n).name \in ImpactedNames
  ELSE Cardinality({i \in 1..Len(direct \o indirect) :
                      IdentityKey((direct \o indirect)[i]) = AssetKey(n)}) = 1

C3_CycleTerminates ==
  (variant \in {"p000", "p001", "p008"} /\ CycleCase) =>
    /\ pc # "cutoff"
    /\ WalkDone => (ReportedOnce(1) /\ ReportedOnce(2))

\* C4: when no request fails, every asset one or more downstream edges below
\* a seed is reported; those one edge below a seed are in the direct list, the
\* others in the indirect list (part_000 reports one list of names).
C4_Completeness ==
  (variant \in {"main", "p000"} /\ WalkDone /\ NoCallFailed /\ catalog = BaseCatalog) =>
    IF variant = "p000"
    THEN \A n \in AtDepthOne \cup Deeper : AssetRecord(n).name \in ImpactedNames
    ELSE /\ \A n \in AtDepthOne : AssetKey(n) \in Ids(direct)
         /\ \A n \in Deeper \ AtDepthOne : AssetKey(n) \in Ids(indirect)

\* C5: a failed lineage request makes its node a leaf: the run is not
\* aborted, and what the successful requests returned as downstream is in the
\* final lists (index.js, part_000).
ReturnedDownstream ==
  UNION { (IF calls[i].deep THEN Within(graph, {AssetOf(calls[i].key[1], calls[i].key[2],
                                                        calls[i].key[3])}, ImpactDepth)
           ELSE DownstreamOf(graph, AssetOf(calls[i].key[1], calls[i].key[2],
                                            calls[i].key[3]))) :
          i \in {k \in 1..Len(calls) : /\ calls[k].api \in {"lineage", "impact"}
                                       /\ calls[k].ok
                                       /\ AssetOf(calls[k].key[1], calls[k].key[2],
                                                  calls[k].key[3]) # 0} }

C5_FailureIsLeaf ==
  (variant \in {"main", "p000"} /\ ConfigComplete(config)
     /\ SomeCallFailed({"lineage", "impact"})) =>
    /\ ~failed
    /\ pc # "failed"
    /\ WalkDone =>
         \A n \in ReturnedDownstream :
           IF variant = "p000" THEN AssetRecord(n).name \in ImpactedNames
           ELSE AssetKey(n) \in Ids(direct) \cup Ids(indirect)

\* C6: when the lineage request of the only seed "a" throws, the direct list
\* stays empty, setFailed is never called, and the finished run has written
\* the job summary and the output value and, in a pull-request context,
\* posted the comment (index.js, part_000).
OnlySeedFailed ==
  /\ Len(matchedTasks) = 1
  /\ matchedTasks[1].name = <<"a">>
  /\ ConfigComplete(config)
  /\ \E i \in 1..Len(calls) :
       /\ calls[i].api \in {"lineage", "impact"}
       /\ ~calls[i].deep
       /\ calls[i].key = IdentityKey(matchedTasks[1])
       /\ ~calls[i].ok

C6_SeedFailureStillReports ==
  (variant \in {"main", "p000"} /\ OnlySeedFailed) =>
    /\ direct = <<>>
    /\ ~failed
    /\ pc # "failed"
    /\ pc = "done" => /\ summaryWritten
                      /\ outputSet
                      /\ prContext => comment = "posted"

\* C7: when the catalog request fails at the transport, no task is matched,
\* no lineage request is made, setFailed is not called and the finished run
\* has produced the report (index.js, part_008).
CatalogFailed ==
  /\ ConfigComplete(config)
  /\ \E i \in 1..Len(calls) : calls[i].api = "catalog" /\ ~calls[i].ok

C7_CatalogFailureIsNoTasks ==
  (variant \in {"main", "p008"} /\ CatalogFailed) =>
    /\ matchedTasks = <<>>
    /\ LineageCalls = <<>>
    /\ ~failed
    /\ pc = "done" => (summaryWritten /\ outputSet)

\* an input the script reads is missing (part_007 reads no base URL)
ConfigError ==
  \/ config.clientId = <<>>
  \/ config.clientSecret = <<>>
  \/ (config.baseUrl = <<>> /\ variant # "p007")

\* C8: with the client id, the client secret or the base URL missing, the run
\* issues no request at all (catalog, lineage, comment) and ends with
\* setFailed (index.js, part_007).
C8_ConfigErrorIsFatal ==
  (variant \in {"main", "p007"} /\ ConfigError) =>
    /\ calls = <<>>
    /\ pc # "tasks" => failed

\* C9: in loose mode the matched tasks are exactly the catalog's tasks whose
\* connection type is "dbt" and whose name is the basename, without
\* extension, of a changed file; lineage requests are made for these only
\* (index.js, part_005).
NameWithoutExtension(file) ==
  LET b == LastSegment(file)
      d == LastIndexOf(b, ".")
  IN  IF d = 0 THEN b ELSE SubSeq(b, 1, d - 1)

RelevantTasks ==
  {i \in 1..Len(catalog) :
     /\ catalog[i].connection_type = DBT
     /\ \E k \in 1..Len(changedFiles) : catalog[i].name = NameWithoutExtension(changedFiles[k])}

CatalogAnswered == \E i \in 1..Len(calls) : calls[i].api = "catalog" /\ calls[i].ok

C9_LooseMatching ==
  (variant \in {"main", "p005"} /\ CatalogAnswered) =>
    /\ {<<matchedTasks[i].name, matchedTasks[i].asset_id, matchedTasks[i].connection_id>> :
          i \in 1..Len(matchedTasks)}
       = {<<catalog[i].name, catalog[i].asset_id, catalog[i].connection_id>> :
          i \in RelevantTasks}
    /\ \A i \in 1..Len(calls) :
         calls[i].api \in {"lineage", "impact"} =>
           \E k \in RelevantTasks :
             calls[i].key = <<catalog[k].asset_id, catalog[k].connection_id,
                              IF Truthy(catalog[k].task_id) THEN catalog[k].task_id
                              ELSE <<>> >>

\* C10: with the one seed a and the lineage a -> [b, c], b -> [d], c -> [],
\* d -> [], the walk ends with direct = {b, c} and indirect = {d}
\* (part_001, part_003, index.js).
ScenarioCase ==
  /\ graph = ScenarioGraph
  /\ Len(matchedTasks) = 1
  /\ SeedAssets = {1}
  /\ ~svcSelf
  /\ NoCallFailed

C10_Scenario ==
  (variant \in {"main", "p001", "p003"} /\ ScenarioCase /\ WalkDone) =>
    /\ Ids(direct) = {AssetKey(2), AssetKey(3)}
    /\ Ids(indirect) = {AssetKey(4)}
    /\ Len(direct) = 2
    /\ Len(indirect) = 1

\* C11: a second call of run() on the same seeds, against services that
\* answer as before (no request fails in either call), reports the direct
\* and indirect sets of the first call, and the same names per connection
\* (index.js, part_000).
BothClean == firstRun.clean /\ \A i \in 1..Len(calls) : calls[i].ok

BelowSeed(n) == Within(graph, {n}, NumAssets)
BelowTwoSeeds ==
  {n \in Assets : \E s, t \in SeedAssets : s # t /\ n \in BelowSeed(s) \cap BelowSeed(t)}

Occurrences(n) ==
  IF variant = "p000"
  THEN Cardinality({<<i, k>> \in (1..Len(allImpactedModels)) \X (1..NumAssets) :
                      /\ k <= Len(allImpactedModels[i].names)
                      /\ allImpactedModels[i].names[k] = AssetRecord(n).name})
  ELSE Cardinality({i \in 1..Len(direct \o indirect) :
                      IdentityKey((direct \o indirect)[i]) = AssetKey(n)})

C12_MergedOnce ==
  (variant \in {"main", "p000", "p001"} /\ WalkDone /\ NoCallFailed) =>
    \A n \in BelowTwoSeeds : Occurrences(n) = 1

(***************************************************************************)
(* Column changes                                                          *)
(***************************************************************************)
\* the column part has run and its result is in the report
ColumnsDone == pc \in {"summary", "done"}

ColumnFiles == {i \in 1..Len(changedFiles) :
                  EndsWith(changedFiles[i], SQL) \/ EndsWith(changedFiles[i], YML)}
IsYml(i) == EndsWith(changedFiles[i], YML)
FromDisk(i) == IsYml(i) /\ variant \in {"main2", "p000", "p005b", "p006"}

\* the before- and the after-content of a changed file as the run reads it
Before(i) == IF FromDisk(i) THEN OnDisk(i, "base") ELSE GitShow(i, "base")
After(i) == IF FromDisk(i) THEN OnDisk(i, "head") ELSE GitShow(i, "head")

\* the columns of a content, by name and in order, as the run extracts them
ColumnsIn(i, content) ==
  IF ~Truthy(content) THEN <<>>
  ELSE IF ~IsYml(i) THEN SqlColumns(content)
  ELSE IF FromDisk(i) THEN Keys(extractColumnsFromYaml(content))
  ELSE IF variant = "main"
       THEN LET cols == extractColumnsFromYML(content, changedFiles[i])
            IN  [k \in 1..Len(cols) |-> NameOf(cols[k])]
  ELSE YmlNames(content)

\* every column a schema declares, whatever its shape
DeclaredColumns(content) ==
  LET schema == content[2]
      opt(list) == IF list = Undefined THEN <<>> ELSE Items(list)
  IN  IF schema.isArray THEN ColumnsOfAll(schema.items)
      ELSE (IF schema.model = Undefined THEN <<>> ELSE opt(schema.model[2].columns))
           \o (IF schema.models = Undefined THEN <<>> ELSE ColumnsOfAll(Items(schema.models)))
           \o opt(schema.columns)

\* the content cannot be parsed, or a column of it cannot be read
Unreadable(i, content) ==
  /\ IsYml(i)
  /\ \/ content = Malformed
     \/ /\ Truthy(content)
        /\ \E k \in 1..Len(DeclaredColumns(content)) : DeclaredColumns(content)[k] = Null

\* the content is there and can be read
Readable(i, content) == Truthy(content) /\ ~Unreadable(i, content)

EntriesOf(i) == SelectSeq(columnChanges, LAMBDA e : e.file = changedFiles[i])

\* C13: a changed file whose after-content is missing has no entry among the
\* column changes; a changed file whose before-content is missing has all
\* its after-columns as added, nothing removed and nothing modified
C13_MissingContent ==
  (variant \in {"main", "main2"} /\ ColumnsDone) =>
    \A i \in ColumnFiles :
      /\ After(i) = Null => EntriesOf(i) = <<>>
      /\ (Before(i) = Null /\ Readable(i, After(i))) =>
           /\ (ColumnsIn(i, After(i)) # <<>>) => EntriesOf(i) # <<>>
           /\ \A k \in 1..Len(EntriesOf(i)) :
                /\ EntriesOf(i)[k].added = ColumnsIn(i, After(i))
                /\ EntriesOf(i)[k].removed = <<>>
                /\ EntriesOf(i)[k].modified = <<>>

\* the files whose column comparison is that of the cited code: the .yml
\* files for the second script of index.js, whose .sql loops are its own
Compared(i) == variant = "main2" => IsYml(i)

\* C14: a changed file with the same readable content before and after has
\* no entry among the column changes: nothing added, removed or modified
C14_RoundTrip ==
  (variant \in {"main", "main2", "p001"} /\ ColumnsDone) =>
    \A i \in ColumnFiles :
      (Compared(i) /\ Readable(i, After(i)) /\ Before(i) = After(i)) => EntriesOf(i) = <<>>

C14_Witness ==
  /\ variant = "main2"
  /\ ColumnsDone
  /\ \E i \in ColumnFiles :
       /\ IsYml(i)
       /\ Before(i) = After(i)
       /\ Readable(i, After(i))
       /\ Constructor \in Range(ColumnsIn(i, After(i)))
       /\ EntriesOf(i) = <<>>

\* the descriptor of the column called name in a schema file's content
Descriptor(i, content, name) ==
  IF FromDisk(i) THEN Own(extractColumnsFromYaml(content), name)
  ELSE LET cols == extractColumnsFromYML(content, changedFiles[i])
       IN  cols[CHOOSE k \in 1..Len(cols) : NameOf(cols[k]) = name]

\* deep structural comparison of two descriptors: the same attributes with
\* the same values
DeepEqual(a, b) == Range(Pairs(a)) = Range(Pairs(b))

NamesBefore(i) == Range(ColumnsIn(i, Before(i)))
NamesAfter(i) == Range(ColumnsIn(i, After(i)))

\* what the report lists for a file
Listed(i, kind) ==
  UNION {Range(IF kind = "added" THEN EntriesOf(i)[k].added
               ELSE IF kind = "removed" THEN EntriesOf(i)[k].removed
               ELSE EntriesOf(i)[k].modified) : k \in 1..Len(EntriesOf(i))}

\* C15: for a schema file read before and after, added is the names after
\* and not before, removed the names before and not after, modified the
\* names on both sides whose descriptors are not deeply equal
C15_ExactDiff ==
  (variant \in {"main", "main2", "p005b"} /\ ColumnsDone) =>
    \A i \in ColumnFiles :
      (IsYml(i) /\ Readable(i, After(i)) /\ Readable(i, Before(i))) =>
        /\ Listed(i, "added") = NamesAfter(i) \ NamesBefore(i)
        /\ Listed(i, "removed") = NamesBefore(i) \ NamesAfter(i)
        /\ Listed(i, "modified") =
             {n \in NamesAfter(i) \cap NamesBefore(i) :
                ~DeepEqual(Descriptor(i, Before(i), n), Descriptor(i, After(i), n))}

\* a side of the file cannot be parsed
ParseError(i) == Unreadable(i, Before(i)) \/ Unreadable(i, After(i))

\* the file can be read on both sides (or is new) and its column names changed
ChangedColumns(i) ==
  /\ Readable(i, After(i))
  /\ Before(i) = Null \/ Readable(i, Before(i))
  /\ NamesAfter(i) # NamesBefore(i)

\* C16: a changed file that cannot be parsed has no entry among the column
\* changes, the other changed files have theirs, and the run does not fail
\* for it
C16_ParseErrorIsLocal ==
  (variant \in {"main", "main2"}) =>
    /\ ColumnsDone =>
         \A i \in ColumnFiles :
           /\ ParseError(i) => EntriesOf(i) = <<>>
           /\ ((\E j \in ColumnFiles : ParseError(j)) /\ ChangedColumns(i)) =>
                EntriesOf(i) # <<>>
    /\ (ConfigComplete(config) /\ NoCallFailed) => pc # "failed"

(***************************************************************************)
(* Publishing                                                              *)
(***************************************************************************)
CommentIssued == Len(calls') = Len(calls) + 1 /\ calls'[Len(calls')].api = "comment"

\* what C17 asks of every step
CommentStep ==
  variant \in {"main", "p000"} =>
    /\ CommentIssued => prContext
    /\ (pc = "comment" /\ ~prContext) =>
         pc' = "summary" /\ comment' = "skipped" /\ calls' = calls /\ failed' = failed
    /\ pc = "summary" => pc' = "done" /\ summaryWritten' /\ outputSet'

\* C17: a comment is posted only in a pull-request context; without one the
\* comment step is left without a request and without a failure, and the
\* step after it writes the job summary and sets the output value
C17_CommentOnlyInPullRequest == [][CommentStep]_vars

(***************************************************************************)
(* The walk                                                                *)
(***************************************************************************)
\* the positions in calls of the lineage requests of this run
Expansions == {i \in 1..Len(calls) : calls[i].api \in {"lineage", "impact"}}

\* C18: during one walk no identity is the argument of two lineage
\* requests, a seed's identity included
C18_ExpandedOnce ==
  variant \in {"p000", "p003"} =>
    \A i, j \in Expansions : calls[i].key = calls[j].key => i = j

\* the records of a list that no earlier record of the list shares its key
\* with, in the order of the list
FirstOccurrences(list, key(_)) ==
  LET first == SortedSeq({i \in 1..Len(list) :
                            \A j \in 1..(i - 1) : key(list[j]) # key(list[i])})
  IN  [k \in 1..Len(first) |-> list[first[k]]]

\* index.js: what the impact requests of the run returned, in order, for the
\* direct loop (self filter applied, 193-196) or for the indirect loop
Returned(deep) ==
  LET reqs == SelectSeq(calls, LAMBDA c : c.api = "impact" /\ c.deep = deep)
      answer(c) ==
        LET all == getImpactAnalysisData(c.key[1], c.key[2], c.key[3], ~deep, c.ok)
            n == AssetOf(c.key[1], c.key[2], c.key[3])
        IN  IF deep THEN all
            ELSE SelectSeq(all, LAMBDA t : t.name # AssetRecord(n).name)
  IN  Flatten([i \in 1..Len(reqs) |-> answer(reqs[i])])

\* the direct and the indirect list as they are before duplicates are removed
DirectFound == IF variant = "main" THEN Returned(FALSE) ELSE AllDirect(perTask)
IndirectFound ==
  IF variant = "main"
  THEN SelectSeq(Returned(TRUE),
                 LAMBDA t : \A i \in 1..Len(Returned(FALSE)) :
                              IdentityName(t) # IdentityName(Returned(FALSE)[i]))
  ELSE AllIndirect(perTask)

\* the key by which the script tells duplicates: index.js 214, part_001 272
DuplicateKey(item) == IF variant = "main" THEN IdentityName(item) ELSE item.name

\* C19: the direct and the indirect list are the first occurrences of what was
\* found, in the order of discovery, and no failure is raised for a duplicate
C19_FirstOccurrenceWins ==
  (variant \in {"main", "p001"} /\ WalkDone) =>
    /\ direct = FirstOccurrences(DirectFound, DuplicateKey)
    /\ indirect = FirstOccurrences(IndirectFound, DuplicateKey)
    /\ ~failed

\* the identities reached from the seeds over downstream edges alone
DownstreamKeys == {AssetKey(n) : n \in SeedAssets \cup Within(graph, SeedAssets, NumAssets)}

\* C20: every record of the direct and of the indirect list was returned with
\* flow downstream, and every lineage request is for a seed or for an asset
\* reached from a seed over downstream edges only
C20_DownstreamOnly ==
  (variant \in {"main", "p001"}) =>
    /\ WalkDone =>
         \A i \in 1..Len(direct \o indirect) : (direct \o indirect)[i].flow = "downstream"
    /\ \A i \in Expansions : calls[i].key \in DownstreamKeys \cup {IdentityKey(matchedTasks[k]) : k \in 1..Len(matchedTasks)}

(***************************************************************************)
(* What the lineage client hands to the walk                               *)
(***************************************************************************)
\* a record of the result of a query for the asset named `queried`
DownstreamOfOther(table, queried) == table.flow = "downstream" /\ table.name # queried

\* the records a step appends to a list
Appended(before, after) == [k \in 1..(Len(after) - Len(before)) |-> after[Len(before) + k]]

\* what C21 asks of every step: the records a direct pass appends to the
\* direct list, those an indirect pass of index.js appends to the indirect
\* list (those it leaves in it, at the last pass of a run with one task), and
\* those part_008's indirectlyImpactedModels passes to the call below it
ResultStep ==
  /\ (variant \in {"main", "p008"} /\ pc = "direct") =>
       \A r \in Range(Appended(direct, direct')) :
         DownstreamOfOther(r, matchedTasks[idx].name)
  /\ (variant = "main" /\ pc = "indirect" /\ idx < Len(matchedTasks)) =>
       \A r \in Range(Appended(indirect, indirect')) :
         DownstreamOfOther(r, matchedTasks[idx].name)
  /\ (variant = "main" /\ pc = "indirect" /\ Len(matchedTasks) = 1) =>
       \A r \in Range(indirect') : DownstreamOfOther(r, matchedTasks[1].name)
  /\ (variant = "p008" /\ pc = "walk" /\ Len(stack') > Len(stack)) =>
       \A r \in Range(Head(stack').items) :
         DownstreamOfOther(r, Head(Head(stack).items).name)

\* C21: what a query returns to the walk holds only records with flow
\* downstream, none of them with the name of the asset the query was for, in
\* the direct and in the deeper queries
C21_DownstreamNoSelf == [][ResultStep]_vars

(***************************************************************************)
(* Strict matching                                                         *)
(***************************************************************************)
\* the path segment before the last one, Null for a file in no folder
ParentSegment(file) ==
  LET slash == LastIndexOf(file, "/")
  IN  IF slash = 0 THEN Null ELSE LastSegment(SubSeq(file, 1, slash - 1))

\* the catalog tasks of type "dbt" for which one changed file has the task's
\* name and lies in the folder of the task's job
StrictlyRelevant ==
  {i \in 1..Len(catalog) :
     /\ catalog[i].connection_type = DBT
     /\ \E k \in 1..Len(changedFiles) :
          /\ NameWithoutExtension(changedFiles[k]) = catalog[i].name
          /\ ParentSegment(changedFiles[k]) = catalog[i].job_name}

\* the catalog tasks a seed or a lineage request may stand for
TasksOfSeed(name, asset_id, connection_id) ==
  {i \in 1..Len(catalog) : /\ catalog[i].name = name
                           /\ catalog[i].asset_id = asset_id
                           /\ catalog[i].connection_id = connection_id}

\* C22: every seed is a catalog task of type "dbt" whose name and job are
\* those of one changed file; a task whose job is the folder of no changed
\* file is no seed
C22_StrictMatching ==
  (variant \in {"p000", "p006"}) =>
    /\ \A s \in 1..Len(matchedTasks) :
         TasksOfSeed(matchedTasks[s].name, matchedTasks[s].asset_id,
                     matchedTasks[s].connection_id) \cap StrictlyRelevant # {}
    /\ \A i \in 1..Len(catalog) :
         (\A k \in 1..Len(changedFiles) : ParentSegment(changedFiles[k]) # catalog[i].job_name)
           => \A s \in 1..Len(matchedTasks) :
                i \notin TasksOfSeed(matchedTasks[s].name, matchedTasks[s].asset_id,
                                     matchedTasks[s].connection_id)

(***************************************************************************)
(* The SQL extractor                                                       *)
(***************************************************************************)
\* the scripts that read the columns of the changed .sql files
SqlReaders == {"main", "main2", "p000", "p001", "p003", "p006", "p008"}

\* the contents of the changed .sql files the run has extracted columns from
SqlContentsRead ==
  {c \in UNION {{GitShow(i, "base"), GitShow(i, "head")} :
                  i \in {k \in ColumnFiles : ~IsYml(k)}} : Truthy(c)}

NoNameTwice(cols) == \A i, j \in 1..Len(cols) : cols[i] = cols[j] => i = j

\* C23: the list extractColumnsFromSQL returns for a content holds no column
\* name twice, in the module the script runs with (sql-parser.js, part_010)
C23_NoColumnTwice ==
  (variant \in SqlReaders /\ ColumnsDone) =>
    \A c \in SqlContentsRead : NoNameTwice(SqlColumns(c))


\* the lists and the map that the loops of run() fill
Accumulators == <<direct, indirect, modelMap, allImpactedModels>>

SingleThreadStep ==
  variant \in {"main", "p000"} =>
    /\ outstanding' <= 1
    /\ Accumulators' # Accumulators => (outstanding <= 1 /\ outstanding' = 0)

AsReturned(r) == \E i \in Assets : r = Table(i, r.flow)

\* C25: in index.js (first script) and part_008 the lineage records that the
\* direct and indirect lists hold are as the lineage client returned them,
\* same fields and same values, through the merge and the report
C25_InputsKept ==
  variant \in {"main", "p008"} =>
    \A r \in Range(direct) \cup Range(indirect) : AsReturned(r)


\* the names of the records the report lists
NamesReported ==
  IF variant = "p000" THEN ImpactedNames
  ELSE {direct[i].name : i \in 1..Len(direct)} \cup {indirect[i].name : i \in 1..Len(indirect)}

\* C26: in index.js (first script) and part_000, when the lists are final no
\* matched task's name is among the names reported as impacted
C26_SeedNotReported ==
  (variant \in {"main", "p000"} /\ pc \in {"comment", "summary", "done"}) =>
    \A i \in 1..Len(matchedTasks) : matchedTasks[i].name \notin NamesReported


(***************************************************************************)
(* The merge keys on records whose fields hold the separator or are        *)
(* missing: the lists are drawn from a pool of such records, then merged    *)
(* as index.js 213-234 merges them, or walked as part_000 77-89 walks the  *)
(* downstream models of one response.                                      *)
(***************************************************************************)
MaxKeyList == 2

\* index.js 214 joins with "-", part_000 74 with "_"
Separator == IF variant = "p000" THEN "_" ELSE "-"

KeyFirsts == {<<"b">>, <<"b", Separator, "1">>, Undefined,
              <<"u", "n", "d", "e", "f", "i", "n", "e", "d">>}
KeySeconds == {<<"1">>, <<"1", Separator, "1">>}

\* a record of a response: its name and asset_id are `first`, its
\* connection_id is `second`
KeyRecord(first, second) ==
  [Table(2, "downstream") EXCEPT !.name = first, !.asset_id = first, !.connection_id = second]

KeyRecords == {KeyRecord(f, s) : f \in KeyFirsts, s \in KeySeconds}

KeyLists == UNION {[1..n -> KeyRecords] : n \in 0..MaxKeyList}

KeysInit ==
  /\ variant \in {"main", "p000"}
  /\ \E in \in {CHOOSE x \in RunInputs : TRUE} :
       /\ graph = in.graph
       /\ catalog = in.catalog
       /\ changedFiles = in.files
       /\ config = in.config
       /\ contents = in.contents
  /\ shaEnv = TRUE
  /\ parser = "sql-parser"
  /\ prContext = TRUE
  /\ svcSelf = FALSE
  /\ \E d \in KeyLists, i \in (IF variant = "main" THEN KeyLists ELSE {<<>>}) :
       /\ given = [direct |-> d, indirect |-> i]
       /\ direct = (IF variant = "main" THEN d ELSE <<>>)
       /\ indirect = i
       /\ stack = (IF variant = "main" THEN <<>> ELSE <<Frame(d, 1, FALSE)>>)
  /\ pc = "merge"
  /\ matchedTasks = <<>>
  /\ idx = 1
  /\ perTask = <<>>
  /\ modelMap = <<>>
  /\ allImpactedModels = <<>>
  /\ calls = <<>>
  /\ failures = 0
  /\ failed = FALSE
  /\ comment = "none"
  /\ summaryWritten = FALSE
  /\ outputSet = FALSE
  /\ columnChanges = <<>>
  /\ runNo = 1
  /\ firstRun = NoRun
  /\ outstanding = 0

\* index.js 213-234: the direct records are removed from the indirect list,
\* then both lists are deduplicated
MergeKeys ==
  /\ pc = "merge"
  /\ variant = "main"
  /\ indirect' = dedup(RemoveDirect(direct, indirect))
  /\ direct' = dedup(direct)
  /\ pc' = "merged"
  /\ UNCHANGED <<env, again, columnChanges, matchedTasks, idx, perTask, stack, modelMap,
                 allImpactedModels, report, calls, failures, failed, outstanding>>

\* part_000 80-86: one pass of the for-loop over the downstream models of a
\* response; a model entered into the map has no downstream model of its own
VisitKeys ==
  /\ pc = "merge"
  /\ variant = "p000"
  /\ LET v == Visit(stack, modelMap)
     IN  /\ modelMap' = v.modelMap
         /\ stack' = IF v.stack = <<>> THEN <<>> ELSE Rest(v.stack)
         /\ pc' = IF v.stack = <<>> THEN "merged" ELSE "merge"
  /\ UNCHANGED <<env, again, columnChanges, matchedTasks, idx, direct, indirect, perTask,
                 allImpactedModels, report, calls, failures, failed, outstanding>>

KeysNext ==
  \/ MergeKeys
  \/ VisitKeys

SpecKeys == KeysInit /\ [][KeysNext]_vars

NameTriples(list) == {IdentityName(list[i]) : i \in 1..Len(list)}
MapTriples(mm) == {IdentityKey(mm[i].model) : i \in 1..Len(mm)}

\* C27: after the merge of index.js every identity (name, connection_id,
\* asset_name) of the received direct list is in the direct list and every
\* identity of the received indirect list that is no direct one is in the
\* indirect list; after the walk of part_000 every identity (asset_id,
\* connection_id, entity) of the received models is in the map
C27_DistinctKept ==
  pc = "merged" =>
    IF variant = "main"
    THEN /\ NameTriples(given.direct) \subseteq NameTriples(direct)
         /\ NameTriples(given.indirect) \ NameTriples(given.direct) \subseteq NameTriples(indirect)
    ELSE Ids(given.direct) \subseteq MapTriples(modelMap)


ImpactRequests(deep) == SelectSeq(calls, LAMBDA c : c.api = "impact" /\ c.deep = deep)
CatalogRequests == SelectSeq(calls, LAMBDA c : c.api = "catalog")

\* the k-th request of the loop is the one for the k-th matched task
OnePerTask(requests) ==
  /\ Len(requests) = Len(matchedTasks)
  /\ \A k \in 1..Len(requests) : requests[k].key = IdentityKey(matchedTasks[k])

\* C28: in index.js (first script) the catalog request is the first request
\* and the only one of its kind; no request without depth follows a request
\* with depth 10; and when the loops have ended there is exactly one request
\* without depth and one with depth 10 for every matched task, in the tasks'
\* order, so that the number of requests does not depend on the lineage
C28_CallOrder ==
  variant = "main" =>
    /\ calls # <<>> => (calls[1].api = "catalog" /\ Len(CatalogRequests) = 1)
    /\ \A i, j \in 1..Len(calls) :
         (calls[i].api = "impact" /\ calls[j].api = "impact" /\ calls[i].deep /\ ~calls[j].deep)
           => j < i
    /\ Len(ImpactRequests(FALSE)) <= Len(matchedTasks)
    /\ Len(ImpactRequests(TRUE)) <= Len(matchedTasks)
    /\ pc \in {"comment", "summary", "done"} =>
         /\ Len(CatalogRequests) = 1
         /\ OnePerTask(ImpactRequests(FALSE))
         /\ OnePerTask(ImpactRequests(TRUE))

\* a run with two matched tasks and a lineage that has a cycle has ended
C28_Witness ==
  /\ variant = "main"
  /\ pc = "done"
  /\ Len(matchedTasks) = 2
  /\ Len(ImpactRequests(TRUE)) = 2
  /\ \E n \in Assets : n \in Within(graph, DownstreamOf(graph, n), NumAssets)


\* C29: in index.js (first script) and part_000, when the comment request
\* has failed no failure is signalled and the run goes on to the job summary
\* and the output value: it is at the summary with neither written yet, or
\* it has ended with both written
C29_CommentFailureGoesOn ==
  (variant \in {"main", "p000"} /\ comment = "error") =>
    /\ ~failed
    /\ \/ pc = "summary" /\ ~summaryWritten /\ ~outputSet
       \/ pc = "done" /\ summaryWritten /\ outputSet


\* C30: for a schema file whose column maps are compared (second scripts of
\* index.js and of part_005), the added, removed and modified names are
\* pairwise disjoint, every added name is after and not before, every
\* removed name before and not after, every modified name on both sides, and
\* a name whose descriptors are equal on both sides is in none of the three
C30_WellFormedDiff ==
  (variant \in {"main2", "p005b"} /\ ColumnsDone) =>
    \A i \in ColumnFiles :
      (IsYml(i) /\ Readable(i, After(i)) /\ Readable(i, Before(i))) =>
        /\ Listed(i, "added") \subseteq NamesAfter(i) \ NamesBefore(i)
        /\ Listed(i, "removed") \subseteq NamesBefore(i) \ NamesAfter(i)
        /\ Listed(i, "modified") \subseteq NamesAfter(i) \cap NamesBefore(i)
        /\ Listed(i, "added") \cap Listed(i, "removed") = {}
        /\ Listed(i, "added") \cap Listed(i, "modified") = {}
        /\ Listed(i, "removed") \cap Listed(i, "modified") = {}
        /\ \A n \in NamesAfter(i) \cap NamesBefore(i) :
             DeepEqual(Descriptor(i, Before(i), n), Descriptor(i, After(i), n)) =>
               n \notin Listed(i, "added") \cup Listed(i, "removed") \cup Listed(i, "modified")

=============================================================================
